---- MODULE Spec2Model ----
(***************************************************************************)
(* Model of the ECG viewer's peripheral connection manager                 *)
(* (src/services/BluetoothService.ts).                                     *)
(*                                                                         *)
(* Every call of connectToECGDevice is a process `a` whose position pc[a]  *)
(* is the await (or pending callback) it is suspended at; every call of    *)
(* disconnectFromECGDevice is a process `k`.  One action is one run of     *)
(* JavaScript between two suspension points.  The BLE library, the         *)
(* permission dialog, the timers and the peripheral are the environment:   *)
(* their answers are drawn with \E.                                        *)
(***************************************************************************)
EXTENDS Integers, Sequences, FiniteSets, TLC

\* ------------------------------------------------------------------ bounds
MaxCalls == 3           \* connect and disconnect calls made in one run
MaxSamples == 1         \* samples delivered to onData in one run

Attempts == 1..MaxCalls
Disconnects == 1..MaxCalls

\* ------------------------------------------------------- program constants
Null == "null"          \* a null device handle
NoAttempt == 0          \* a null callback, timer handle or scan listener
NoSubscription == [kind |-> "null", by |-> NoAttempt]

DISCONNECTED == "DISCONNECTED"
SCANNING == "SCANNING"
CONNECTING == "CONNECTING"
CONNECTED == "CONNECTED"
ERROR == "ERROR"
ConnectionStatus == {DISCONNECTED, SCANNING, CONNECTING, CONNECTED, ERROR}

TARGET_DEVICE_NAME == <<"E", "S", "P", "3", "2">>

\* The peripherals in radio range: id |-> advertised name (a sequence of
\* characters; the empty name is a device that advertises none).
DeviceName ==
    [ devA |-> <<"e", "s", "p", "3", "2">>,
      devB |-> <<"E", "S", "P", "3", "2", "_">>,
      devC |-> <<"M", "i">>,
      devD |-> << >> ]
Devices == DOMAIN DeviceName

VARIABLES
    bleManagerInstance, \* TRUE iff the BLE module loaded (FALSE in Expo Go)
    connectedDevice,    \* the owned peripheral handle, or Null
    subscription,       \* the stored sample subscription, or Null
    scanTimeout,        \* the stored timer handle (the attempt that armed it), or Null
    currentStatus,
    statusCallback,     \* the attempt whose onStatusChange is installed, or Null
    scanListener,       \* library: the attempt whose scan callback is registered, or Null
    timers,             \* runtime: attempts whose 30 s timer is armed
    links,              \* peripheral side: devices with an open link
    monitors,           \* library: attempts whose notification subscription is live
    intervals,          \* runtime: attempts whose 100 ms poll interval is live
    reads,              \* attempts' poll reads in flight
    pc, ret, dev,       \* per connect call: position, settled value, matched device
    perm, radio, attr,  \* per connect call: the environment's answers
    observed,           \* per connect call: statuses its onStatusChange received
    scanned,            \* connect calls that started a device scan
    dpc, ddev,          \* per disconnect call: position, device being cancelled
    delivered,          \* number of onData invocations
    tornDown,           \* history: a disconnect call has completed and no
                        \* connect call has been made since
    \* ---- the sample decoder (parseECGData and the handlers that call it)
    characteristic,     \* the characteristic value ready for its handler (a queue of at most one)
    lastCall,           \* the handler's latest run: its payload and what it handed to onData
    handled,            \* number of characteristic values handled
    handedOn,           \* number of samples the handlers handed to onData
    \* ---- the dashboard (src/unnamed/part_000) and the synthetic generator
    isScanning, isConnecting, isSaving, useFakeData,    \* component state
    heartRate,                  \* the displayed estimate
    sessionStartTime,           \* ref: start timestamp, or NoTime
    sessionHeartRates,          \* ref: one estimate per sample of the session
    sessionECGValues,           \* ref: the session's samples
    heartRateCalculationBuffer, \* ref: the estimator's window
    interval,                   \* FakeData: the generator's timer is live
    dataPoint,                  \* FakeData: the generator's running index
    bleSource,                  \* the connection delivers samples to handleECGData
    startPc,                    \* startMonitoring's position: "none" or "connect"
    stopPc,                     \* stopMonitoring's: "none", "disconnect", "settings", "persist"
    draft,                      \* the session saveSession is persisting (at most one)
    saving,                     \* sessions the alert's Save handler is persisting
    alerts,                     \* the open alerts, the latest last
    offered,                    \* the session the Save Session? alert offers (at most one)
    stored,                     \* the sessions saveECGSession has stored, the latest first
    fed, switched, lastFed,     \* history of the sample stream
    starts, stops,              \* number of Start and of Stop Monitoring presses
    autoSaveRead,               \* history: the autoSave setting the latest summary read
    unmounted,                  \* the Dashboard component has been unmounted
    \* ---- the session store (src/services/StorageService.ts)
    sessionsItem,       \* AsyncStorage: the item under ECG_SESSIONS (at most one value)
    statisticsItem,     \* AsyncStorage: the item under APP_STATISTICS (at most one value)
    returned,           \* what the latest getAllECGSessions resolved with
    completed,          \* how the latest operation ended: "none", "ok" or "failed"
    nextId,             \* the next fresh session id
    ops,                \* number of store operations called
    storeCalls,         \* the overlapping saveECGSession and deleteECGSession calls
    \* ---- the synthetic generator on its own (src/services/FakeData.ts)
    simStarts,          \* number of startECGSimulation calls
    simTimers,          \* runtime: the live generator timers, each named by the call that armed it
    simHandle,          \* the timer the module's interval holds, or NoTimer
    emitted,            \* the timer's latest callback invocation (at most one)
    batches             \* the calls of generateECGBatch: count, noise drawn, result

connection ==
        << bleManagerInstance, connectedDevice, subscription, scanTimeout,
           currentStatus, statusCallback, scanListener, timers, links, monitors,
           intervals, reads, pc, ret, dev, perm, radio, attr, observed, scanned, dpc,
           ddev, delivered, tornDown >>
decoder == << characteristic, lastCall, handled, handedOn >>
flags == << isScanning, isConnecting, isSaving, useFakeData >>
session == << sessionStartTime, sessionHeartRates, sessionECGValues >>
estimator == << heartRateCalculationBuffer, heartRate >>
generator == << interval, dataPoint >>
async == << startPc, stopPc, draft, saving >>
ui == << alerts, offered >>
stream == << fed, switched, lastFed >>
presses == << starts, stops >>
dashboard == << flags, session, estimator, generator, bleSource, async, ui, stored,
                stream, presses, autoSaveRead, unmounted >>
storage == << sessionsItem, statisticsItem, returned, completed, nextId, ops, storeCalls >>
fakeData == << simStarts, simTimers, simHandle, emitted, batches >>
services == << storage, fakeData >>
vars == << connection, decoder, dashboard, services >>

library == << scanListener, timers, links, monitors, intervals, reads >>
answers == << perm, radio, attr >>
discs == << dpc, ddev, tornDown >>

\* ------------------------------------------------------------ pure helpers
toUpperCase(s) ==
    [ i \in DOMAIN s |->
        CASE s[i] = "e" -> "E"
          [] s[i] = "s" -> "S"
          [] s[i] = "p" -> "P"
          [] s[i] = "i" -> "I"
          [] OTHER -> s[i] ]

includes(s, t) ==
    \E i \in 0..(Len(s) - Len(t)) : SubSeq(s, i + 1, i + Len(t)) = t

\* line 203: deviceName.toUpperCase().includes(TARGET_DEVICE_NAME.toUpperCase())
MatchesTarget(d) ==
    includes(toUpperCase(DeviceName[d]), toUpperCase(TARGET_DEVICE_NAME))

requestBluetoothPermissions(os, sdk31, scanGranted, connectGranted, granted, throws) ==
    IF os = "android"
    THEN IF throws THEN FALSE
         ELSE IF sdk31 THEN scanGranted /\ connectGranted
              ELSE granted
    ELSE TRUE

\* ---------------------------------------------------------- state helpers
updateStatus_Silent(cb, status) ==
    /\ currentStatus' = status
    /\ UNCHANGED observed

\* cb is the value statusCallback holds when updateStatus runs.
updateStatus(cb, status) ==
    /\ currentStatus' = status
    /\ observed' = IF cb # NoAttempt
                   THEN [observed EXCEPT ![cb] = Append(@, status)]
                   ELSE observed

\* resolve() of the promise connectToECGDevice returned: settles it once.
resolve(a, v) ==
    ret' = IF ret[a] = "none" THEN [ret EXCEPT ![a] = v] ELSE ret

\* clearTimeout(scanTimeout), guarded by `if (scanTimeout)`
clearedTimers == IF scanTimeout # NoAttempt THEN timers \ {scanTimeout} ELSE timers

stopDeviceScan_Ignored == UNCHANGED scanListener

\* bleManagerInstance.stopDeviceScan(): the library drops the scan callback
stopDeviceScan == scanListener' = NoAttempt

\* -------------------------------------------------------------------- Init
\* ---------------------------------------------------- dashboard, idle
NoTime == 0             \* sessionStartTime.current = null
InitialHeartRate == 72

\* ---- the store and the generator before any call (AsyncStorage empty)
InitServices ==
    /\ sessionsItem = << >>
    /\ statisticsItem = << >>
    /\ returned = << >>
    /\ completed = "none"
    /\ nextId = 1
    /\ ops = 0
    /\ storeCalls = << >>
    /\ simStarts = 0
    /\ simTimers = {}
    /\ simHandle = 0
    /\ emitted = << >>
    /\ batches = << >>

\* ---- the dashboard as constructed (lines 18-34, FakeData.ts lines 8-9)
InitDashboard ==
    /\ isScanning = FALSE
    /\ isConnecting = FALSE
    /\ isSaving = FALSE
    /\ useFakeData = FALSE
    /\ heartRate = InitialHeartRate
    /\ sessionStartTime = NoTime
    /\ sessionHeartRates = << >>
    /\ sessionECGValues = << >>
    /\ heartRateCalculationBuffer = << >>
    /\ interval = FALSE
    /\ dataPoint = 0
    /\ bleSource = FALSE
    /\ startPc = "none"
    /\ stopPc = "none"
    /\ draft = << >>
    /\ saving = << >>
    /\ alerts = << >>
    /\ offered = << >>
    /\ stored = << >>
    /\ fed = 0
    /\ switched = FALSE
    /\ lastFed = << >>
    /\ starts = 0
    /\ stops = 0
    /\ autoSaveRead = "none"
    /\ unmounted = FALSE

InitConnection ==
    /\ bleManagerInstance \in BOOLEAN
    /\ connectedDevice = Null
    /\ subscription = NoSubscription
    /\ scanTimeout = NoAttempt
    /\ currentStatus = DISCONNECTED
    /\ statusCallback = NoAttempt
    /\ scanListener = NoAttempt
    /\ timers = {}
    /\ links = {}
    /\ monitors = {}
    /\ intervals = {}
    /\ reads = {}
    /\ pc = [a \in Attempts |-> "idle"]
    /\ ret = [a \in Attempts |-> "none"]
    /\ dev = [a \in Attempts |-> Null]
    /\ perm = [a \in Attempts |-> "none"]
    /\ radio = [a \in Attempts |-> "none"]
    /\ attr = [a \in Attempts |-> "none"]
    /\ observed = [a \in Attempts |-> << >>]
    /\ scanned = {}
    /\ dpc = [k \in Disconnects |-> "idle"]
    /\ ddev = [k \in Disconnects |-> Null]
    /\ delivered = 0
    /\ tornDown = FALSE

\* ------------------------------------------------- caller's discipline
\* A connect call has nothing left to run: it has not started, it has
\* finished, or it waits for a scan whose callback and timer are both gone.
Settled(a) ==
    \/ pc[a] \in {"idle", "done"}
    \/ pc[a] = "scanning" /\ scanListener # a /\ a \notin timers

\* The caller has calls left to make in this run.
CallsLeft ==
    Cardinality({a \in Attempts : pc[a] # "idle"})
      + Cardinality({k \in Disconnects : dpc[k] # "idle"}) < MaxCalls

\* Callers do not overlap connect calls (spec section 5).
NoConnectInFlight == \A b \in Attempts : Settled(b)

\* No call of either kind is in progress.
NoCallInProgress ==
    /\ \A b \in Attempts : pc[b] \in {"idle", "done"}
    /\ \A k \in Disconnects : dpc[k] \in {"idle", "done"}

\* ------------------------------------------------ connectToECGDevice
AlreadyConnected_Never == FALSE

\* line 112: if (connectedDevice)
AlreadyConnected == connectedDevice # Null

\* lines 100-119: the call up to its first await
connectToECGDevice(a) ==
    /\ pc[a] = "idle"
    /\ \A b \in Attempts : b < a => pc[b] # "idle"
    /\ IF ~bleManagerInstance
       THEN /\ updateStatus(statusCallback, ERROR)
            /\ resolve(a, "false")
            /\ pc' = [pc EXCEPT ![a] = "done"]
            /\ UNCHANGED statusCallback
       ELSE /\ statusCallback' = a
            /\ IF AlreadyConnected
               THEN /\ updateStatus(a, CONNECTED)
                    /\ resolve(a, "true")
                    /\ pc' = [pc EXCEPT ![a] = "done"]
               ELSE /\ pc' = [pc EXCEPT ![a] = "perm"]
                    /\ UNCHANGED << currentStatus, observed, ret >>
    /\ tornDown' = FALSE
    /\ UNCHANGED << bleManagerInstance, connectedDevice, subscription, scanTimeout,
                    library, dev, answers, scanned,
                    dpc, ddev, delivered >>

\* lines 119-130: requestBluetoothPermissions() has answered
PermissionResult(a, hasPermissions) ==
    /\ pc[a] = "perm"
    /\ perm' = [perm EXCEPT ![a] = IF hasPermissions THEN "granted" ELSE "denied"]
    /\ IF ~hasPermissions
       THEN /\ updateStatus(statusCallback, ERROR)
            /\ resolve(a, "false")
            /\ pc' = [pc EXCEPT ![a] = "done"]
       ELSE /\ pc' = [pc EXCEPT ![a] = "state"]
            /\ UNCHANGED << currentStatus, observed, ret >>
    /\ UNCHANGED << bleManagerInstance, connectedDevice, subscription, scanTimeout,
                    statusCallback, library, dev, radio, attr, scanned, discs,
                    delivered >>

PoweredOn_Any(state) == state # "throw"

\* line 132: state !== "PoweredOn" fails the attempt
PoweredOn(state) == state = "PoweredOn"

\* lines 130-176 and 233-237: bleManagerInstance.state() has answered (or
\* thrown); when powered on the attempt enters SCANNING, arms the timer and
\* starts the scan.
BluetoothState(a, state) ==
    /\ pc[a] = "state"
    /\ radio' = [radio EXCEPT ![a] = state]
    /\ IF PoweredOn(state)
       THEN /\ updateStatus(statusCallback, SCANNING)
            /\ scanTimeout' = a
            /\ timers' = timers \cup {a}
            /\ scanListener' = a
            /\ scanned' = scanned \cup {a}
            /\ pc' = [pc EXCEPT ![a] = "scanning"]
            /\ UNCHANGED ret
       ELSE /\ updateStatus(statusCallback, ERROR)
            /\ resolve(a, "false")
            /\ pc' = [pc EXCEPT ![a] = "done"]
            /\ UNCHANGED << scanTimeout, timers, scanListener, scanned >>
    /\ UNCHANGED << bleManagerInstance, connectedDevice, subscription,
                    statusCallback, links, monitors, intervals, reads, dev,
                    perm, attr, discs, delivered >>

\* lines 149-174: the 30 s timer fires
ScanTimeoutFires(a) ==
    /\ a \in timers
    /\ timers' = timers \ {a}
    /\ stopDeviceScan
    /\ IF connectedDevice = Null
       THEN /\ updateStatus(statusCallback, ERROR)
            /\ resolve(a, "false")
            /\ pc' = [pc EXCEPT ![a] = IF @ = "scanning" THEN "done" ELSE @]
       ELSE UNCHANGED << currentStatus, observed, ret, pc >>
    /\ UNCHANGED << bleManagerInstance, connectedDevice, subscription, scanTimeout,
                    statusCallback, links, monitors, intervals, reads, dev,
                    answers, scanned, discs, delivered >>

\* lines 177-185: the scan callback is handed an error
ScanError(a) ==
    /\ scanListener = a
    /\ stopDeviceScan
    /\ timers' = clearedTimers
    /\ updateStatus(statusCallback, ERROR)
    /\ resolve(a, "false")
    /\ pc' = [pc EXCEPT ![a] = "done"]
    /\ UNCHANGED << bleManagerInstance, connectedDevice, subscription, scanTimeout,
                    statusCallback, links, monitors, intervals, reads, dev,
                    answers, scanned, discs, delivered >>

ScanReport_NoConnecting(a, d) ==
    /\ scanListener = a
    /\ IF MatchesTarget(d)
       THEN /\ stopDeviceScan
            /\ timers' = clearedTimers
            /\ UNCHANGED << currentStatus, observed >>
            /\ dev' = [dev EXCEPT ![a] = d]
            /\ pc' = [pc EXCEPT ![a] = "connect"]
       ELSE UNCHANGED << scanListener, timers, currentStatus, observed, dev, pc >>
    /\ UNCHANGED << bleManagerInstance, connectedDevice, subscription, scanTimeout,
                    statusCallback, links, monitors, intervals, reads, ret,
                    answers, scanned, discs, delivered >>

\* lines 187-208: the scan callback is handed device d.  devicesFound and
\* discoveredDeviceNames are locals of the call that are only ever logged;
\* they are not part of the state.
ScanReport(a, d) ==
    /\ scanListener = a
    /\ IF MatchesTarget(d)
       THEN /\ stopDeviceScan
            /\ timers' = clearedTimers
            /\ updateStatus(statusCallback, CONNECTING)
            /\ dev' = [dev EXCEPT ![a] = d]
            /\ pc' = [pc EXCEPT ![a] = "connect"]
       ELSE UNCHANGED << scanListener, timers, currentStatus, observed, dev, pc >>
    /\ UNCHANGED << bleManagerInstance, connectedDevice, subscription, scanTimeout,
                    statusCallback, links, monitors, intervals, reads, ret,
                    answers, scanned, discs, delivered >>

catchConnectError_Silent(a) ==
    /\ connectedDevice' = Null
    /\ UNCHANGED << currentStatus, observed >>
    /\ resolve(a, "false")
    /\ pc' = [pc EXCEPT ![a] = "done"]

catchConnectError_KeepsHandle(a) ==
    /\ UNCHANGED connectedDevice
    /\ updateStatus(statusCallback, ERROR)
    /\ resolve(a, "false")
    /\ pc' = [pc EXCEPT ![a] = "done"]

\* lines 224-229: the catch block of the connect step
catchConnectError(a) ==
    /\ connectedDevice' = Null
    /\ updateStatus(statusCallback, ERROR)
    /\ resolve(a, "false")
    /\ pc' = [pc EXCEPT ![a] = "done"]

\* lines 212-216: device.connect() has settled
ConnectResult(a, ok) ==
    /\ pc[a] = "connect"
    /\ IF ok
       THEN /\ connectedDevice' = dev[a]
            /\ links' = links \cup {dev[a]}
            /\ pc' = [pc EXCEPT ![a] = "discover"]
            /\ UNCHANGED << currentStatus, observed, ret >>
       ELSE /\ catchConnectError(a)
            /\ UNCHANGED links
    /\ UNCHANGED << bleManagerInstance, subscription, scanTimeout, statusCallback,
                    scanListener, timers, monitors, intervals, reads, dev,
                    answers, scanned, discs, delivered >>

\* lines 220-223: whatever monitorECGData returned, the attempt succeeds
afterMonitor(a, started) ==
    /\ updateStatus(statusCallback, CONNECTED)
    /\ resolve(a, "true")
    /\ pc' = [pc EXCEPT ![a] = "done"]

\* lines 216-220, 242-249: discoverAllServicesAndCharacteristics() has
\* settled; on success monitorECGData starts and awaits the characteristics.
\* A failed discovery may or may not have taken the link down (linkUp).
DiscoverResult(a, ok, linkUp) ==
    /\ pc[a] = "discover"
    /\ IF ok
       THEN /\ linkUp
            /\ IF connectedDevice = Null
               THEN afterMonitor(a, FALSE)
               ELSE /\ pc' = [pc EXCEPT ![a] = "chars"]
                    /\ UNCHANGED << currentStatus, observed, ret >>
            /\ UNCHANGED << connectedDevice, links >>
       ELSE /\ catchConnectError(a)
            /\ links' = IF linkUp THEN links ELSE links \ {dev[a]}
    /\ UNCHANGED << bleManagerInstance, subscription, scanTimeout, statusCallback,
                    scanListener, timers, monitors, intervals, reads, dev,
                    answers, scanned, discs, delivered >>

AttrOutcomes == {"throw", "missing", "notifiable", "pollonly"}

CharacteristicsResult_Both(a, outcome) ==
    /\ pc[a] = "chars"
    /\ attr' = [attr EXCEPT ![a] = outcome]
    /\ CASE outcome = "notifiable" ->
              /\ subscription' = [kind |-> "notify", by |-> a]
              /\ monitors' = monitors \cup {a}
              /\ intervals' = intervals \cup {a}
         [] outcome = "pollonly" ->
              /\ subscription' = [kind |-> "poll", by |-> a]
              /\ intervals' = intervals \cup {a}
              /\ UNCHANGED monitors
         [] OTHER -> UNCHANGED << subscription, monitors, intervals >>
    /\ afterMonitor(a, outcome \in {"notifiable", "pollonly"})
    /\ UNCHANGED << bleManagerInstance, connectedDevice, scanTimeout, statusCallback,
                    scanListener, timers, links, reads, dev, perm, radio, scanned,
                    discs, delivered >>

\* lines 249-309, 220-223: characteristicsForService() has settled; the rest
\* of monitorECGData runs and the attempt finishes.
CharacteristicsResult(a, outcome) ==
    /\ pc[a] = "chars"
    /\ attr' = [attr EXCEPT ![a] = outcome]
    /\ CASE outcome = "notifiable" ->
              /\ subscription' = [kind |-> "notify", by |-> a]
              /\ monitors' = monitors \cup {a}
              /\ UNCHANGED intervals
         [] outcome = "pollonly" ->
              /\ subscription' = [kind |-> "poll", by |-> a]
              /\ intervals' = intervals \cup {a}
              /\ UNCHANGED monitors
         [] OTHER -> UNCHANGED << subscription, monitors, intervals >>
    /\ afterMonitor(a, outcome \in {"notifiable", "pollonly"})
    /\ UNCHANGED << bleManagerInstance, connectedDevice, scanTimeout, statusCallback,
                    scanListener, timers, links, reads, dev, perm, radio, scanned,
                    discs, delivered >>

\* ------------------------------------------------------ sample delivery
\* lines 266-276: the notification subscription is handed a characteristic;
\* an empty value is falsy and dropped, any other is parsed and delivered.
MonitorData(a, hasValue) ==
    /\ a \in monitors
    /\ dev[a] \in links
    /\ IF hasValue
       THEN /\ delivered < MaxSamples
            /\ delivered' = delivered + 1
       ELSE UNCHANGED delivered
    /\ UNCHANGED << bleManagerInstance, connectedDevice, subscription, scanTimeout,
                    currentStatus, statusCallback, library, pc, ret, dev, answers,
                    observed, scanned, discs >>

\* lines 266-270: the notification subscription is handed an error (the link
\* to the peripheral broke); the handler logs it and returns.
MonitorError(a) ==
    /\ a \in monitors
    /\ monitors' = monitors \ {a}
    /\ links' = links \ {dev[a]}
    /\ UNCHANGED << bleManagerInstance, connectedDevice, subscription, scanTimeout,
                    currentStatus, statusCallback, scanListener, timers, intervals,
                    reads, pc, ret, dev, answers, observed, scanned, discs, delivered >>

\* lines 281-290: the 100 ms interval ticks; it clears itself when no handle
\* is owned, otherwise it starts a read (at most one in flight per interval).
PollTick(a) ==
    /\ a \in intervals
    /\ a \notin reads
    /\ IF connectedDevice = Null
       THEN /\ intervals' = intervals \ {a}
            /\ UNCHANGED reads
       ELSE /\ reads' = reads \cup {a}
            /\ UNCHANGED intervals
    /\ UNCHANGED << bleManagerInstance, connectedDevice, subscription, scanTimeout,
                    currentStatus, statusCallback, scanListener, timers, links,
                    monitors, pc, ret, dev, answers, observed, scanned, discs,
                    delivered >>

\* lines 291-296: a poll read has settled: a value is delivered, an empty
\* value is dropped, a failure is logged.
PollReadDone(a, outcome) ==
    /\ a \in reads
    /\ reads' = reads \ {a}
    /\ IF outcome = "value"
       THEN /\ dev[a] \in links
            /\ delivered < MaxSamples
            /\ delivered' = delivered + 1
       ELSE UNCHANGED delivered
    /\ UNCHANGED << bleManagerInstance, connectedDevice, subscription, scanTimeout,
                    currentStatus, statusCallback, scanListener, timers, links,
                    monitors, intervals, pc, ret, dev, answers, observed, scanned,
                    discs >>

\* lines 390-393
isConnected == connectedDevice # Null /\ currentStatus = CONNECTED

\* -------------------------------------------- disconnectFromECGDevice
\* lines 381-382
finishDisconnect(k) ==
    /\ updateStatus(statusCallback, DISCONNECTED)
    /\ statusCallback' = NoAttempt
    /\ dpc' = [dpc EXCEPT ![k] = "done"]
    /\ tornDown' = TRUE

\* lines 344-352: subscription.remove() and subscription = null
removeSubscription ==
    /\ monitors' = IF subscription.kind = "notify"
                   THEN monitors \ {subscription.by} ELSE monitors
    /\ intervals' = IF subscription.kind = "poll"
                    THEN intervals \ {subscription.by} ELSE intervals
    /\ subscription' = NoSubscription

\* lines 340-372: the call up to its await of cancelConnection(), or to its
\* end when no handle is owned
disconnectFromECGDevice(k) ==
    /\ dpc[k] = "idle"
    /\ \A j \in Disconnects : j < k => dpc[j] # "idle"
    /\ removeSubscription
    /\ timers' = clearedTimers
    /\ scanTimeout' = NoAttempt
    /\ stopDeviceScan
    /\ IF connectedDevice # Null
       THEN /\ dpc' = [dpc EXCEPT ![k] = "cancel"]
            /\ ddev' = [ddev EXCEPT ![k] = connectedDevice]
            /\ UNCHANGED << currentStatus, observed, statusCallback, tornDown >>
       ELSE /\ finishDisconnect(k)
            /\ UNCHANGED ddev
    /\ UNCHANGED << bleManagerInstance, connectedDevice, links, reads, pc, ret, dev,
                    answers, scanned, delivered >>

\* lines 372-382: cancelConnection() has settled (resolved or rejected; the
\* link is down either way)
CancelConnectionDone(k) ==
    /\ dpc[k] = "cancel"
    /\ links' = links \ {ddev[k]}
    /\ connectedDevice' = Null
    /\ finishDisconnect(k)
    /\ UNCHANGED << bleManagerInstance, subscription, scanTimeout, scanListener,
                    timers, monitors, intervals, reads, pc, ret, dev, answers,
                    scanned, ddev, delivered >>

\* ----------------------------------------------------------- environment
Platforms == {"android", "ios"}

\* No characteristic value is in flight (the connection specifications count
\* onData invocations in `delivered` and leave the decoder alone).
DecoderIdle ==
    /\ characteristic = << >>
    /\ lastCall = << >>
    /\ handled = 0
    /\ handedOn = 0

Init == InitConnection /\ DecoderIdle /\ InitDashboard /\ InitServices

\* The steps that are not the start of a call.
Continue ==
    \/ \E a \in Attempts, os \in Platforms, sdk31, sg, cg, g, th \in BOOLEAN :
          PermissionResult(a, requestBluetoothPermissions(os, sdk31, sg, cg, g, th))
    \/ \E a \in Attempts, st \in {"PoweredOn", "PoweredOff", "throw"} :
          BluetoothState(a, st)
    \/ \E a \in Attempts : ScanTimeoutFires(a)
    \/ \E a \in Attempts : ScanError(a)
    \/ \E a \in Attempts, d \in Devices : ScanReport(a, d)
    \/ \E a \in Attempts, ok \in BOOLEAN : ConnectResult(a, ok)
    \/ \E a \in Attempts, ok, linkUp \in BOOLEAN : DiscoverResult(a, ok, linkUp)
    \/ \E a \in Attempts, o \in AttrOutcomes : CharacteristicsResult(a, o)
    \/ \E a \in Attempts, hasValue \in BOOLEAN : MonitorData(a, hasValue)
    \/ \E a \in Attempts : MonitorError(a)
    \/ \E a \in Attempts : PollTick(a)
    \/ \E a \in Attempts, o \in {"value", "empty", "error"} : PollReadDone(a, o)
    \/ \E k \in Disconnects : CancelConnectionDone(k)

\* connect calls do not overlap one another; disconnect is called at any time.
Next ==
    /\ \/ \E a \in Attempts : CallsLeft /\ NoConnectInFlight /\ connectToECGDevice(a)
       \/ \E k \in Disconnects : CallsLeft /\ disconnectFromECGDevice(k)
       \/ Continue
    /\ UNCHANGED << decoder, dashboard, services >>

Spec == Init /\ [][Next]_vars

\* The steps of connect call a that the platform owes it: every promise the
\* call awaits settles, and its 30 s timer, while armed, fires.
Settles(a) ==
    /\ \/ \E os \in Platforms, sdk31, sg, cg, g, th \in BOOLEAN :
              PermissionResult(a, requestBluetoothPermissions(os, sdk31, sg, cg, g, th))
       \/ \E st \in {"PoweredOn", "PoweredOff", "throw"} : BluetoothState(a, st)
       \/ ScanTimeoutFires(a)
       \/ \E ok \in BOOLEAN : ConnectResult(a, ok)
       \/ \E ok, linkUp \in BOOLEAN : DiscoverResult(a, ok, linkUp)
       \/ \E o \in AttrOutcomes : CharacteristicsResult(a, o)
    /\ UNCHANGED << decoder, dashboard, services >>

\* Spec with the platform keeping its promises.
SpecFair == Init /\ [][Next]_vars /\ \A a \in Attempts : WF_vars(Settles(a))

\* every call starts only after every earlier call has completed.
NextSerial ==
    /\ \/ \E a \in Attempts : CallsLeft /\ NoCallInProgress /\ connectToECGDevice(a)
       \/ \E k \in Disconnects : CallsLeft /\ NoCallInProgress /\ disconnectFromECGDevice(k)
       \/ Continue
    /\ UNCHANGED << decoder, dashboard, services >>

SpecSerial == Init /\ [][NextSerial]_vars

TypeOK ==
    /\ currentStatus \in ConnectionStatus
    /\ connectedDevice \in Devices \cup {Null}
    /\ statusCallback \in Attempts \cup {NoAttempt}
    /\ delivered \in 0..MaxSamples

\* ================================================================ numbers
\* A JavaScript number is modelled by the rational n/d it stands for, in
\* lowest terms with d > 0 (a double's rounding error is not modelled).
Abs(x) == IF x < 0 THEN -x ELSE x

RECURSIVE GCD(_, _)
GCD(a, b) == IF b = 0 THEN a ELSE GCD(b, a % b)

Rat(n, d) ==
    IF n = 0 THEN [n |-> 0, d |-> 1]
    ELSE LET g == GCD(Abs(n), Abs(d))
             s == IF d < 0 THEN -1 ELSE 1
         IN  [n |-> s * (n \div g), d |-> s * (d \div g)]

RECURSIVE Pow2(_)
Pow2(k) == IF k = 0 THEN 1 ELSE 2 * Pow2(k - 1)

\* ================================================================ decoder
\* A characteristic value travels as a base64 string; a character is
\* modelled by its 6-bit value, the padding character "=" by Pad.
Pad == 64

\* The BLE library's encoding of the bytes the peripheral sent.
RECURSIVE toBase64(_)
toBase64(b) ==
    IF Len(b) = 0 THEN << >>
    ELSE IF Len(b) = 1
    THEN << b[1] \div 4, (b[1] % 4) * 16, Pad, Pad >>
    ELSE IF Len(b) = 2
    THEN << b[1] \div 4, (b[1] % 4) * 16 + b[2] \div 16, (b[2] % 16) * 4, Pad >>
    ELSE << b[1] \div 4, (b[1] % 4) * 16 + b[2] \div 16,
            (b[2] % 16) * 4 + b[3] \div 64, b[3] % 64 >>
         \o toBase64(SubSeq(b, 4, Len(b)))

RECURSIVE fromSextets(_)
fromSextets(c) ==
    IF Len(c) < 2 THEN << >>
    ELSE IF Len(c) = 2
    THEN << c[1] * 4 + c[2] \div 16 >>
    ELSE IF Len(c) = 3
    THEN << c[1] * 4 + c[2] \div 16, (c[2] % 16) * 16 + c[3] \div 4 >>
    ELSE << c[1] * 4 + c[2] \div 16, (c[2] % 16) * 16 + c[3] \div 4,
            (c[3] % 4) * 64 + c[4] >>
         \o fromSextets(SubSeq(c, 5, Len(c)))

\* line 314: Buffer.from(base64, "base64")
BufferFrom(base64) == fromSextets(SelectSeq(base64, LAMBDA c : c # Pad))

\* buf.readUInt8(offset)
readUInt8(buf, offset) == buf[offset + 1]

\* buf.readInt16LE(offset): two's complement of the 16-bit little-endian word
readInt16LE(buf, offset) ==
    LET val == buf[offset + 1] + buf[offset + 2] * 256
    IN  IF val >= 32768 THEN val - 65536 ELSE val

NaN == [n |-> 0, d |-> 0]
Infinity(sign) == [n |-> sign, d |-> 0]

\* buf.readFloatLE(offset): the IEEE-754 binary32 value of the 32-bit
\* little-endian word (1 sign bit, 8 exponent bits, 23 fraction bits)
readFloatLE(buf, offset) ==
    LET b0 == buf[offset + 1]
        b1 == buf[offset + 2]
        b2 == buf[offset + 3]
        b3 == buf[offset + 4]
        sign == IF b3 >= 128 THEN -1 ELSE 1
        e == (b3 % 128) * 2 + b2 \div 128
        m == (b2 % 128) * 65536 + b1 * 256 + b0
    IN  IF e = 255 THEN (IF m = 0 THEN Infinity(sign) ELSE NaN)
        ELSE IF e = 0 THEN Rat(sign * m, Pow2(149))
        ELSE IF e >= 150 THEN Rat(sign * (8388608 + m) * Pow2(e - 150), 1)
        ELSE Rat(sign * (8388608 + m), Pow2(150 - e))

parseECGData_Int16First(buf) ==
    IF Len(buf) >= 2 THEN Rat(readInt16LE(buf, 0), 1000)
    ELSE IF Len(buf) >= 1 THEN Rat(readUInt8(buf, 0), 10)
    ELSE Rat(0, 1)

parseECGData_Unsigned(buf) ==
    IF Len(buf) >= 4 THEN readFloatLE(buf, 0)
    ELSE IF Len(buf) >= 2 THEN Rat(buf[1] + buf[2] * 256, 1000)
    ELSE IF Len(buf) >= 1 THEN Rat(readUInt8(buf, 0), 10)
    ELSE Rat(0, 1)

\* lines 312-337, applied to the decoded buffer (Buffer.from does not throw
\* on a string, so the catch block is not reached)
parseECGData(buf) ==
    IF Len(buf) >= 4 THEN readFloatLE(buf, 0)
    ELSE IF Len(buf) >= 2 THEN Rat(readInt16LE(buf, 0), 1000)
    ELSE IF Len(buf) >= 1 THEN Rat(readUInt8(buf, 0), 10)
    ELSE Rat(0, 1)

truthy_Always(value) == TRUE

\* lines 272 and 291: `if (characteristic?.value)`; the empty string is falsy
truthy(value) == Len(value) > 0

\* ---- the payloads drawn for the decoder
MaxLen == 5             \* bytes in one payload
MaxPayloads == 2        \* characteristic values handled in one run

\* 0x00 0x3F 0x80 0xFF
Bytes == {0, 63, 128, 255}

RECURSIVE SeqsUpTo(_, _)
SeqsUpTo(S, k) ==
    IF k = 0 THEN { << >> }
    ELSE LET shorter == SeqsUpTo(S, k - 1)
         IN  shorter \cup { Append(s, x) : s \in {t \in shorter : Len(t) = k - 1}, x \in S }

\* The exponent field of the float a payload of four or more bytes holds.
FloatExponent(p) == (p[4] % 128) * 2 + p[3] \div 128

\* Float payloads are drawn with magnitude between 2^-7 and 2^8, or +0:
\* the rationals they stand for fit the model checker's integers.
Payloads ==
    { p \in SeqsUpTo(Bytes, MaxLen) :
        Len(p) >= 4 =>
            \/ FloatExponent(p) \in 120..134
            \/ SubSeq(p, 1, 4) = << 0, 0, 0, 0 >> }

\* ---- the two handlers that receive characteristic values
\* The library (notification) or the runtime (settled poll read) has a
\* characteristic value ready for its handler: the peripheral's bytes.
Receive(p, via) ==
    /\ characteristic = << >>
    /\ handled < MaxPayloads
    /\ characteristic' = << [via |-> via, bytes |-> p] >>
    /\ lastCall' = << >>
    /\ UNCHANGED << handled, handedOn >>

\* lines 272-275 and 291-293: a truthy value is decoded and handed to onData
handleValue ==
    LET p == Head(characteristic).bytes
        value == toBase64(p)
        out == IF truthy(value) THEN << parseECGData(BufferFrom(value)) >> ELSE << >>
    IN  /\ characteristic' = << >>
        /\ lastCall' = << [payload |-> p, onData |-> out] >>
        /\ handled' = handled + 1
        /\ handedOn' = handedOn + Len(out)

\* lines 266-276: the notification callback runs without an error
monitorCallback ==
    /\ characteristic # << >>
    /\ Head(characteristic).via = "notify"
    /\ handleValue

\* lines 288-293: the poll read has resolved
pollCallback ==
    /\ characteristic # << >>
    /\ Head(characteristic).via = "poll"
    /\ handleValue

InitDecoder ==
    /\ characteristic \in { << [via |-> v, bytes |-> p] >> : v \in {"notify", "poll"}, p \in Payloads }
    /\ lastCall = << >>
    /\ handled = 0
    /\ handedOn = 0

\* The decoder on its own: the connection is left as constructed.
InitDecode ==
    /\ InitConnection
    /\ bleManagerInstance = TRUE
    /\ InitDecoder
    /\ InitDashboard
    /\ InitServices

NextDecode ==
    /\ \/ \E p \in Payloads, via \in {"notify", "poll"} : Receive(p, via)
       \/ monitorCallback
       \/ pollCallback
    /\ UNCHANGED << connection, dashboard, services >>

SpecDecode == InitDecode /\ [][NextDecode]_vars

\* =============================================================== dashboard
\* The monitoring screen (src/unnamed/part_000, lines 17-310) with the
\* synthetic generator's timer (src/services/FakeData.ts).  connectToECGDevice
\* is the environment here: it answers true or false, and after true it
\* delivers samples.  State that no handler reads (chart points, the
\* displayed average and connection status, date and time strings) is left
\* out.
StartedAt == 1          \* a value of Date.now()
WindowSize == 50
PeakFactor == 6
MinBPM == 50
MaxBPM == 180
threshold == Rat(3, 2)
ElevatedAbove == 85
LowBelow == 65

\* ---- arithmetic on numbers
Less(x, y) == x.n * y.d < y.n * x.d
Plus(x, y) == Rat(x.n * y.d + y.n * x.d, x.d * y.d)
Over(x, k) == Rat(x.n, x.d * k)
Whole(k) == Rat(k, 1)

\* arr.reduce((a, b) => a + b, 0); the sum of rationals is exact, so it is
\* the same in whatever order the elements are added: by halves here
RECURSIVE reduceSum(_)
reduceSum(arr) ==
    IF arr = << >> THEN Whole(0)
    ELSE IF Len(arr) = 1 THEN Plus(Whole(0), arr[1])
    ELSE LET half == Len(arr) \div 2
         IN  Plus(reduceSum(SubSeq(arr, 1, half)),
                  reduceSum(SubSeq(arr, half + 1, Len(arr))))

MathRound_Floor(x) == x.n \div x.d

\* Math.round: the nearest integer, a tie going up
MathRound(x) == (2 * x.n + x.d) \div (2 * x.d)

\* x.toFixed(2): the decimal string with two digits after the point, held as
\* its count of hundredths; the nearest one, a tie going away from zero
toFixed2(x) ==
    LET h == (2 * 100 * Abs(x.n) + x.d) \div (2 * x.d)
    IN  IF x.n < 0 THEN -h ELSE h

\* parseFloat of such a string
parseFloat2(hundredths) == Rat(hundredths, 100)

\* Math.min(...arr) and Math.max(...arr) of a non-empty array
MathMin(arr) == CHOOSE x \in {arr[i] : i \in DOMAIN arr} :
                    \A j \in DOMAIN arr : ~Less(arr[j], x)
MathMax(arr) == CHOOSE x \in {arr[i] : i \in DOMAIN arr} :
                    \A j \in DOMAIN arr : ~Less(x, arr[j])

Min2(a, b) == IF a < b THEN a ELSE b
Max2(a, b) == IF a > b THEN a ELSE b

\* ---- the heart-rate estimator
clamp_Unclamped(peaks) == peaks * PeakFactor

\* line 49: Math.min(Math.max(peaks * 6, 50), 180)
clamp(peaks) == Min2(Max2(peaks * PeakFactor, MinBPM), MaxBPM)

isPeak_AtThreshold(v) == ~Less(v, threshold)

\* line 46: v > threshold
isPeak(v) == Less(threshold, v)

calculateHeartRate_EvictNewest(buffer, ecgValue) ==
    LET pushed == Append(buffer, ecgValue)
        kept == IF Len(pushed) > WindowSize THEN SubSeq(pushed, 1, WindowSize) ELSE pushed
        peaks == Cardinality({i \in DOMAIN kept : isPeak(kept[i])})
    IN  [buffer |-> kept, estimatedBPM |-> clamp(peaks)]

\* lines 36-51: the buffer after the push and the eviction, and the estimate
calculateHeartRate(buffer, ecgValue) ==
    LET pushed == Append(buffer, ecgValue)
        kept == IF Len(pushed) > WindowSize THEN Tail(pushed) ELSE pushed
        peaks == Cardinality({i \in DOMAIN kept : isPeak(kept[i])})
    IN  [buffer |-> kept, estimatedBPM |-> clamp(peaks)]

handleECGData_Prepend(value) ==
    LET r == calculateHeartRate(heartRateCalculationBuffer, value)
    IN  /\ heartRateCalculationBuffer' = r.buffer
        /\ heartRate' = r.estimatedBPM
        /\ IF sessionStartTime # NoTime
           THEN /\ sessionHeartRates' = Append(sessionHeartRates, r.estimatedBPM)
                /\ sessionECGValues' = << value >> \o sessionECGValues
           ELSE UNCHANGED << sessionHeartRates, sessionECGValues >>

\* lines 54-70
handleECGData(value) ==
    LET r == calculateHeartRate(heartRateCalculationBuffer, value)
    IN  /\ heartRateCalculationBuffer' = r.buffer
        /\ heartRate' = r.estimatedBPM
        /\ IF sessionStartTime # NoTime
           THEN /\ sessionHeartRates' = Append(sessionHeartRates, r.estimatedBPM)
                /\ sessionECGValues' = Append(sessionECGValues, value)
           ELSE UNCHANGED << sessionHeartRates, sessionECGValues >>

\* ---- the session summary
statusOf_Inclusive(avgHeartRate) ==
    IF avgHeartRate >= ElevatedAbove THEN "elevated"
    ELSE IF avgHeartRate <= LowBelow THEN "low"
    ELSE "normal"

\* lines 218-220
statusOf(avgHeartRate) ==
    IF avgHeartRate > ElevatedAbove THEN "elevated"
    ELSE IF avgHeartRate < LowBelow THEN "low"
    ELSE "normal"

\* lines 232-236: "Xm Ys" or "Ys"
formatDuration(durationSeconds) ==
    LET minutes == durationSeconds \div 60
        seconds == durationSeconds % 60
    IN  IF minutes > 0 THEN << minutes, "m", seconds, "s" >> ELSE << seconds, "s" >>

avgECGOf_Unrounded(values) == Over(reduceSum(values), Len(values))

\* lines 211-213
avgECGOf(values) == parseFloat2(toFixed2(Over(reduceSum(values), Len(values))))

\* lines 208-251: the session object saveSession builds
buildSession(heartRates, values, durationSeconds) ==
    LET avgHeartRate == MathRound(Over(reduceSum([i \in DOMAIN heartRates |-> Whole(heartRates[i])]),
                                       Len(heartRates)))
    IN  [ heartRate |-> avgHeartRate,
          avgECG |-> avgECGOf(values),
          minECG |-> MathMin(values),
          maxECG |-> MathMax(values),
          status |-> statusOf(avgHeartRate),
          duration |-> formatDuration(durationSeconds),
          durationSeconds |-> durationSeconds,
          ecgData |-> values ]

\* ---- state helpers
unshift_Twice(arr, x) == << x, x >> \o arr

\* StorageService.ts line 88: sessions.unshift(newSession)
unshift(arr, x) == << x >> \o arr

Last(s) == s[Len(s)]
Front(s) == SubSeq(s, 1, Len(s) - 1)

\* Alerts that offer nothing but OK.
Informational == {"connected", "saved", "success", "saveError"}

PressAllowed_WhileSaving == ~isConnecting /\ alerts = << >>

\* lines 425-431: the start/stop button is disabled while saving or
\* connecting; an open alert is modal.
PressAllowed == ~isSaving /\ ~isConnecting /\ alerts = << >>

\* lines 290-293
resetTracking ==
    /\ sessionStartTime' = NoTime
    /\ sessionHeartRates' = << >>
    /\ sessionECGValues' = << >>

\* The sample stream fed so far: its length, its latest sample and whether
\* two consecutive samples have differed.
Feed(value) ==
    /\ fed' = fed + 1
    /\ lastFed' = << value >>
    /\ switched' = (switched \/ (lastFed # << >> /\ lastFed # << value >>))

startMonitoring_KeepsWindow ==
    /\ PressAllowed
    /\ ~isScanning
    /\ isConnecting' = TRUE
    /\ sessionStartTime' = StartedAt
    /\ sessionHeartRates' = << >>
    /\ sessionECGValues' = << >>
    /\ startPc' = "connect"
    /\ starts' = starts + 1
    /\ UNCHANGED << isScanning, isSaving, useFakeData, estimator, generator, bleSource,
                    stopPc, draft, saving, ui, stored, stream, stops,
                    autoSaveRead, unmounted >>

\* ---- startMonitoring
\* lines 182-188 and 73-84: the call up to its await of connectToECGDevice
startMonitoring ==
    /\ PressAllowed
    /\ ~isScanning
    /\ isConnecting' = TRUE
    /\ sessionStartTime' = StartedAt
    /\ sessionHeartRates' = << >>
    /\ sessionECGValues' = << >>
    /\ heartRateCalculationBuffer' = << >>
    /\ startPc' = "connect"
    /\ starts' = starts + 1
    /\ UNCHANGED << isScanning, isSaving, useFakeData, heartRate, generator, bleSource,
                    stopPc, draft, saving, ui, stored, stream, stops,
                    autoSaveRead, unmounted >>

\* lines 84-112: connectToECGDevice has answered
ConnectReturns(connected) ==
    /\ startPc = "connect"
    /\ startPc' = "none"
    /\ IF connected
       THEN /\ isScanning' = TRUE
            /\ useFakeData' = FALSE
            /\ bleSource' = TRUE
            /\ alerts' = Append(alerts, "connected")
       ELSE /\ alerts' = Append(alerts, "fallback")
            /\ UNCHANGED << isScanning, useFakeData, bleSource >>
    /\ UNCHANGED << isConnecting, isSaving, session, estimator, generator, stopPc,
                    draft, saving, offered, stored, stream, presses, autoSaveRead, unmounted >>

\* line 106: Cancel on the fallback alert
FallbackCancel ==
    /\ alerts # << >>
    /\ Last(alerts) = "fallback"
    /\ alerts' = Front(alerts)
    /\ isConnecting' = FALSE
    /\ UNCHANGED << isScanning, isSaving, useFakeData, session, estimator, generator,
                    bleSource, async, offered, stored, stream, presses, autoSaveRead, unmounted >>

\* lines 107-110 and 122-131, FakeData.ts lines 73-88: Use Fake Data
startFakeDataSimulation ==
    /\ alerts # << >>
    /\ Last(alerts) = "fallback"
    /\ alerts' = Front(alerts)
    /\ useFakeData' = TRUE
    /\ isScanning' = TRUE
    /\ isConnecting' = FALSE
    /\ interval' = TRUE
    /\ dataPoint' = 0
    /\ UNCHANGED << isSaving, session, estimator, bleSource, async, offered, stored,
                    stream, presses, autoSaveRead, unmounted >>

\* OK on an alert that offers nothing else
DismissAlert ==
    /\ alerts # << >>
    /\ Last(alerts) \in Informational
    /\ alerts' = Front(alerts)
    /\ UNCHANGED << flags, session, estimator, generator, bleSource, async, offered,
                    stored, stream, presses, autoSaveRead, unmounted >>

\* ---- sample sources
\* FakeData.ts lines 83-87: the generator's timer fires
SimulationTick(value) ==
    /\ interval
    /\ handleECGData(value)
    /\ dataPoint' = dataPoint + 1
    /\ Feed(value)
    /\ UNCHANGED << flags, sessionStartTime, interval, bleSource, async, ui, stored,
                    presses, autoSaveRead, unmounted >>

\* the connection hands a decoded sample to the onData it was given (line 85)
ConnectionSample(value) ==
    /\ bleSource
    /\ handleECGData(value)
    /\ Feed(value)
    /\ UNCHANGED << flags, sessionStartTime, generator, bleSource, async, ui, stored,
                    presses, autoSaveRead, unmounted >>

\* ---- stopMonitoring and saveSession
\* lines 146-151 and 193-196: stopMonitoring once the sample source is
\* stopped, up to saveSession's await of getUserSettings, or to its end
afterSourceStopped_Always ==
    /\ isSaving' = TRUE
    /\ stopPc' = "settings"
    /\ UNCHANGED heartRateCalculationBuffer

afterSourceStopped ==
    IF sessionStartTime # NoTime /\ Len(sessionHeartRates) > 0
    THEN /\ isSaving' = TRUE
         /\ stopPc' = "settings"
         /\ UNCHANGED heartRateCalculationBuffer
    ELSE /\ stopPc' = "none"
         /\ heartRateCalculationBuffer' = << >>
         /\ UNCHANGED isSaving

\* lines 182-188 and 134-146
stopMonitoring ==
    /\ PressAllowed
    /\ isScanning
    /\ isScanning' = FALSE
    /\ IF useFakeData
       THEN /\ interval' = FALSE
            /\ useFakeData' = FALSE
            /\ afterSourceStopped
       ELSE /\ stopPc' = "disconnect"
            /\ UNCHANGED << interval, useFakeData, isSaving, heartRateCalculationBuffer >>
    /\ stops' = stops + 1
    /\ UNCHANGED << isConnecting, session, heartRate, dataPoint, bleSource, startPc,
                    draft, saving, ui, stored, stream, starts,
                    autoSaveRead, unmounted >>

\* lines 143-151: disconnectFromECGDevice has returned
DisconnectReturns ==
    /\ stopPc = "disconnect"
    /\ bleSource' = FALSE
    /\ afterSourceStopped
    /\ UNCHANGED << isScanning, isConnecting, useFakeData, session, heartRate, generator,
                    startPc, draft, saving, ui, stored, stream, presses, autoSaveRead, unmounted >>

\* lines 196-255 and 267-299: getUserSettings has answered; saveSession runs
\* to its await of saveECGSession, or to its end and stopMonitoring to its own
SettingsResult(autoSave, durationSeconds) ==
    /\ stopPc = "settings"
    /\ IF Len(sessionHeartRates) = 0 \/ Len(sessionECGValues) = 0
       THEN /\ isSaving' = FALSE
            /\ stopPc' = "none"
            /\ heartRateCalculationBuffer' = << >>
            /\ UNCHANGED << session, draft, ui, autoSaveRead >>
       ELSE LET s == buildSession(sessionHeartRates, sessionECGValues, durationSeconds)
            IN  IF autoSave
                THEN /\ autoSaveRead' = "on"
                     /\ draft' = << s >>
                     /\ stopPc' = "persist"
                     /\ UNCHANGED << isSaving, session, heartRateCalculationBuffer, ui >>
                ELSE /\ autoSaveRead' = "off"
                     /\ alerts' = Append(alerts, "saveSession")
                     /\ offered' = << s >>
                     /\ resetTracking
                     /\ isSaving' = FALSE
                     /\ stopPc' = "none"
                     /\ heartRateCalculationBuffer' = << >>
                     /\ UNCHANGED draft
    /\ UNCHANGED << isScanning, isConnecting, useFakeData, heartRate, generator,
                    bleSource, startPc, saving, stored, stream, presses, unmounted >>

\* lines 254-266 and 290-299: saveECGSession has resolved or rejected
PersistResult(ok) ==
    /\ stopPc = "persist"
    /\ stopPc' = "none"
    /\ draft' = << >>
    /\ isSaving' = FALSE
    /\ heartRateCalculationBuffer' = << >>
    /\ IF ok
       THEN /\ stored' = unshift(stored, draft[1])
            /\ alerts' = Append(alerts, "saved")
            /\ resetTracking
       ELSE /\ alerts' = Append(alerts, "saveError")
            /\ UNCHANGED << stored, session >>
    /\ UNCHANGED << isScanning, isConnecting, useFakeData, heartRate, generator,
                    bleSource, startPc, saving, offered, stream, presses, autoSaveRead, unmounted >>

\* line 278: Discard on the Save Session? alert
DiscardSession ==
    /\ alerts # << >>
    /\ Last(alerts) = "saveSession"
    /\ alerts' = Front(alerts)
    /\ offered' = << >>
    /\ UNCHANGED << flags, session, estimator, generator, bleSource, async, stored,
                    stream, presses, autoSaveRead, unmounted >>

\* lines 279-282: Save on that alert, up to the await of saveECGSession
ConfirmSave ==
    /\ alerts # << >>
    /\ Last(alerts) = "saveSession"
    /\ alerts' = Front(alerts)
    /\ saving' = Append(saving, offered[1])
    /\ offered' = << >>
    /\ UNCHANGED << flags, session, estimator, generator, bleSource, startPc, stopPc,
                    draft, stored, stream, presses, autoSaveRead, unmounted >>

\* lines 282-283: that saveECGSession has resolved, or rejected (nothing
\* handles the rejection)
ConfirmSaveResult(ok) ==
    /\ saving # << >>
    /\ saving' = Tail(saving)
    /\ IF ok
       THEN /\ stored' = unshift(stored, Head(saving))
            /\ alerts' = Append(alerts, "success")
       ELSE UNCHANGED << stored, alerts >>
    /\ UNCHANGED << flags, session, estimator, generator, bleSource, startPc, stopPc,
                    draft, offered, stream, presses, autoSaveRead, unmounted >>

\* ---- the runs explored
MaxFed == 3             \* samples fed to the dashboard in one run of sessions
MaxStarts == 2          \* presses of Start Monitoring in one run
MaxStream == 52         \* samples fed in the one long session

\* 0.9, 1.1, 2.0, 1.234 and -0.125 mV
SessionValues == {Rat(9, 10), Rat(11, 10), Whole(2), Rat(1234, 1000), Rat(-1, 8)}
\* 1.0, 1.5 and 2.0 mV
EstimatorValues == {Whole(1), threshold, Whole(2)}
\* values of Math.floor((endTime - sessionStartTime) / 1000)
Durations == {7, 67}

\* The steps that are neither a press of the start/stop button nor a sample.
Respond ==
    \/ \E connected \in BOOLEAN : ConnectReturns(connected)
    \/ FallbackCancel
    \/ startFakeDataSimulation
    \/ DismissAlert
    \/ \E autoSave \in BOOLEAN, d \in Durations : SettingsResult(autoSave, d)
    \/ \E ok \in BOOLEAN : PersistResult(ok)
    \/ DiscardSession
    \/ ConfirmSave
    \/ \E ok \in BOOLEAN : ConfirmSaveResult(ok)

InitSession ==
    /\ InitConnection
    /\ bleManagerInstance = TRUE
    /\ DecoderIdle
    /\ InitDashboard
    /\ InitServices

\* Short sessions, one after another, of any samples in any order.
NextSession ==
    /\ \/ starts < MaxStarts /\ startMonitoring
       \/ stopMonitoring
       \/ \E v \in SessionValues : fed < MaxFed /\ SimulationTick(v)
       \/ \E v \in SessionValues : fed < MaxFed /\ ConnectionSample(v)
       \/ Respond
    /\ UNCHANGED << connection, decoder, services >>

SpecSession == InitSession /\ [][NextSession]_vars

\* The stream of the long session: one block of equal samples, or two.
InStream(v) == fed < MaxStream /\ (switched => lastFed = << v >>)

\* One long session.
NextEstimator ==
    /\ \/ starts = 0 /\ startMonitoring
       \/ stopMonitoring
       \/ \E v \in EstimatorValues : InStream(v) /\ SimulationTick(v)
       \/ \E v \in EstimatorValues : InStream(v) /\ ConnectionSample(v)
       \/ Respond
    /\ UNCHANGED << connection, decoder, services >>

SpecEstimator == InitSession /\ [][NextEstimator]_vars

\* lines 84-85 and 128-130: the sample callback the screen handed out at a
\* start is invoked by its holder while neither of the screen's sample
\* sources is live.
LateSample(value) ==
    /\ starts > 0
    /\ ~interval
    /\ ~bleSource
    /\ handleECGData(value)
    /\ Feed(value)
    /\ UNCHANGED << flags, sessionStartTime, generator, bleSource, async, ui, stored,
                    presses, autoSaveRead, unmounted >>

\* Short sessions, with the sample callback invoked at any time after it was
\* first handed out.
NextCallback ==
    \/ NextSession
    \/ /\ \E v \in SessionValues : fed < MaxFed /\ LateSample(v)
       /\ UNCHANGED << connection, decoder, services >>

SpecCallback == InitSession /\ [][NextCallback]_vars

\* ============================================================ the store
\* src/services/StorageService.ts over AsyncStorage.  Each exported operation
\* is one action, from its call to its settling: the operations are called
\* one after another.  Any AsyncStorage call may reject; `fault` names the
\* one that does ("read": the getItem of the sessions, "write": the setItem
\* of the sessions, "statistics": the setItem of the statistics).
MaxOps == 4             \* store operations called in one run
Times == 1..2           \* values of Date.now()

\* JSON.stringify writes a number that is NaN or infinite as null
JSONnull == [null |-> TRUE]
jsonNumber(x) == IF x.d = 0 THEN JSONnull ELSE x

\* JSON.stringify of a session followed by JSON.parse of the text
jsonSession(s) ==
    [s EXCEPT !.avgECG = jsonNumber(@), !.minECG = jsonNumber(@), !.maxECG = jsonNumber(@)]

JSONstringify(sessions) == [i \in DOMAIN sessions |-> jsonSession(sessions[i])]

sortNewestFirst_Unsorted(arr) == arr

\* line 112: sessions.sort((a, b) => b.timestamp - a.timestamp), a stable sort
RECURSIVE sortNewestFirst(_)
sortNewestFirst(arr) ==
    IF arr = << >> THEN << >>
    ELSE LET x == arr[Len(arr)]
             rest == sortNewestFirst(SubSeq(arr, 1, Len(arr) - 1))
             before == SelectSeq(rest, LAMBDA y : y.timestamp >= x.timestamp)
             after == SelectSeq(rest, LAMBDA y : y.timestamp < x.timestamp)
         IN  before \o << x >> \o after

\* lines 106-117: an absent item or a failed read gives the empty list
getAllECGSessions(item, readOk) ==
    IF ~readOk \/ item = << >> THEN << >> ELSE sortNewestFirst(item[1])

\* lines 349-360, on a number of seconds that need not be whole
storageFormatDuration(seconds) ==
    LET minutes == seconds.n \div (seconds.d * 60)
        remainingSeconds == (seconds.n - 60 * minutes * seconds.d) \div seconds.d
    IN  IF minutes = 0 THEN << remainingSeconds, " sec" >>
        ELSE IF remainingSeconds = 0 THEN << minutes, " min" >>
        ELSE << minutes, "m ", remainingSeconds, "s" >>

\* lines 329-337
emptyStats ==
    [ totalSessions |-> 0, avgHeartRate |-> 0, avgDuration |-> << 0, " min" >>,
      lastSessionTimestamp |-> 0, normalReadings |-> 0, elevatedReadings |-> 0,
      lowReadings |-> 0 ]

countStatus(sessions, status) ==
    Len(SelectSeq(sessions, LAMBDA x : x.status = status))

\* lines 269-316 on the list getAllECGSessions gave: the statistics, and
\* whether they were written (they are not when there is no session)
calculateStatistics(sessions) ==
    IF Len(sessions) = 0
    THEN [statistics |-> emptyStats, stored |-> FALSE]
    ELSE LET totalHeartRate ==
                 reduceSum([i \in DOMAIN sessions |-> Whole(sessions[i].heartRate)])
             totalDurationSeconds ==
                 reduceSum([i \in DOMAIN sessions |-> Whole(sessions[i].durationSeconds)])
         IN  [ statistics |->
                 [ totalSessions |-> Len(sessions),
                   avgHeartRate |-> MathRound(Over(totalHeartRate, Len(sessions))),
                   avgDuration |->
                       storageFormatDuration(Over(totalDurationSeconds, Len(sessions))),
                   lastSessionTimestamp |-> sessions[1].timestamp,
                   normalReadings |-> countStatus(sessions, "normal"),
                   elevatedReadings |-> countStatus(sessions, "elevated"),
                   lowReadings |-> countStatus(sessions, "low") ],
               stored |-> TRUE ]

\* lines 321-323: the statistics item after updateStatistics has run on the
\* sessions item
updateStatistics(item, old) ==
    LET r == calculateStatistics(getAllECGSessions(item, TRUE))
    IN  IF r.stored THEN << r.statistics >> ELSE old

StoreCall == ops < MaxOps /\ ops' = ops + 1

\* lines 75-101; the id (line 80: the clock and nine random characters) is
\* a fresh one, the timestamp is the clock's value
saveECGSession(ecgSession, now, fault) ==
    /\ StoreCall
    /\ nextId' = nextId + 1
    /\ LET newSession == [id |-> nextId, timestamp |-> now] @@ ecgSession
           sessions == unshift(getAllECGSessions(sessionsItem, fault # "read"), newSession)
           written == << JSONstringify(sessions) >>
       IN  IF fault = "write"
           THEN /\ completed' = "failed"
                /\ UNCHANGED << sessionsItem, statisticsItem >>
           ELSE /\ sessionsItem' = written
                /\ IF fault = "statistics"
                   THEN /\ completed' = "failed"
                        /\ UNCHANGED statisticsItem
                   ELSE /\ completed' = "ok"
                        /\ statisticsItem' = updateStatistics(written, statisticsItem)
    /\ UNCHANGED returned

\* lines 106-117, called by a screen
callGetAllECGSessions(readOk) ==
    /\ StoreCall
    /\ returned' = getAllECGSessions(sessionsItem, readOk)
    /\ completed' = "ok"
    /\ UNCHANGED << sessionsItem, statisticsItem, nextId >>

\* lines 135-150
deleteECGSession(id, fault) ==
    /\ StoreCall
    /\ LET sessions == getAllECGSessions(sessionsItem, fault # "read")
           written == << JSONstringify(SelectSeq(sessions, LAMBDA x : x.id # id)) >>
       IN  IF fault = "write"
           THEN /\ completed' = "failed"
                /\ UNCHANGED << sessionsItem, statisticsItem >>
           ELSE /\ sessionsItem' = written
                /\ IF fault = "statistics"
                   THEN /\ completed' = "failed"
                        /\ UNCHANGED statisticsItem
                   ELSE /\ completed' = "ok"
                        /\ statisticsItem' = updateStatistics(written, statisticsItem)
    /\ UNCHANGED << returned, nextId >>

\* lines 155-164, resetStatistics lines 328-340
deleteAllECGSessions(fault) ==
    /\ StoreCall
    /\ IF fault = "write"
       THEN /\ completed' = "failed"
            /\ UNCHANGED << sessionsItem, statisticsItem >>
       ELSE /\ sessionsItem' = << << >> >>
            /\ IF fault = "statistics"
               THEN /\ completed' = "failed"
                    /\ UNCHANGED statisticsItem
               ELSE /\ completed' = "ok"
                    /\ statisticsItem' = << emptyStats >>
    /\ UNCHANGED << returned, nextId >>

\* lines 243-264: the stored statistics, or calculateStatistics if none is
\* stored
getStatistics ==
    /\ StoreCall
    /\ completed' = "ok"
    /\ statisticsItem' = IF statisticsItem # << >> THEN statisticsItem
                         ELSE updateStatistics(sessionsItem, statisticsItem)
    /\ UNCHANGED << sessionsItem, returned, nextId >>

\* lines 383-395
clearAllData ==
    /\ StoreCall
    /\ sessionsItem' = << >>
    /\ statisticsItem' = << >>
    /\ completed' = "ok"
    /\ UNCHANGED << returned, nextId >>

\* lines 424-447: data is what JSON.parse gives for the text, if it parses;
\* its members sessions and statistics are present or not
importDataFromJSON(data, fault) ==
    /\ StoreCall
    /\ IF ~data.valid \/ (fault = "write" /\ data.sessions # << >>)
       THEN /\ completed' = "failed"
            /\ UNCHANGED << sessionsItem, statisticsItem >>
       ELSE LET written == IF data.sessions # << >>
                           THEN << JSONstringify(data.sessions[1]) >>
                           ELSE sessionsItem
            IN  /\ sessionsItem' = written
                /\ IF fault = "statistics" /\ data.statistics # << >>
                   THEN /\ completed' = "failed"
                        /\ UNCHANGED statisticsItem
                   ELSE /\ completed' = "ok"
                        /\ statisticsItem' = IF data.statistics # << >>
                                             THEN data.statistics
                                             ELSE updateStatistics(written, statisticsItem)
    /\ UNCHANGED << returned, nextId >>

\* ---- the inputs drawn
\* sessions as saveSession builds them: one of each status
StoreSessions ==
    { buildSession(<< 50 >>, << Whole(1) >>, 7),
      buildSession(<< 66, 78 >>, << Whole(1), Whole(2) >>, 67),
      buildSession(<< 90 >>, << Whole(2) >>, 120) }

Faults == {"none", "read", "write", "statistics"}

\* a backup's sessions: two sessions, the older one first
BackupSessions ==
    << [id |-> 101, timestamp |-> 1] @@ buildSession(<< 50 >>, << Whole(1) >>, 7),
       [id |-> 102, timestamp |-> 2] @@ buildSession(<< 90 >>, << Whole(2) >>, 120) >>

\* texts handed to importDataFromJSON: one that does not parse, {}, a backup
\* as exportAllDataAsJSON writes it, one without statistics, one with an
\* empty list of sessions
Imports ==
    { [valid |-> FALSE, sessions |-> << >>, statistics |-> << >>],
      [valid |-> TRUE, sessions |-> << >>, statistics |-> << >>],
      [valid |-> TRUE, sessions |-> << BackupSessions >>,
       statistics |-> << calculateStatistics(sortNewestFirst(BackupSessions)).statistics >>],
      [valid |-> TRUE, sessions |-> << BackupSessions >>, statistics |-> << >>],
      [valid |-> TRUE, sessions |-> << << >> >>, statistics |-> << >>] }

SessionIds == (1..MaxOps) \cup {101, 102}

NextStorage ==
    /\ \/ \E s \in StoreSessions, now \in Times, fault \in Faults : saveECGSession(s, now, fault)
       \/ \E readOk \in BOOLEAN : callGetAllECGSessions(readOk)
       \/ \E id \in SessionIds, fault \in Faults : deleteECGSession(id, fault)
       \/ \E fault \in Faults \ {"read"} : deleteAllECGSessions(fault)
       \/ getStatistics
       \/ clearAllData
       \/ \E data \in Imports, fault \in Faults \ {"read"} : importDataFromJSON(data, fault)
    /\ UNCHANGED << connection, decoder, dashboard, fakeData, storeCalls >>

SpecStorage == InitSession /\ [][NextStorage]_vars

\* ---- calls that overlap
\* saveECGSession and deleteECGSession step by step: each await of an
\* AsyncStorage call is a point where another call runs.  A call reads the
\* sessions item (line 85 or 137 through lines 108-112), writes it back
\* (line 91 or 140), then updateStatistics reads the sessions again (line
\* 271) and writes the statistics (line 311).  Every AsyncStorage call
\* succeeds here.
MaxConcurrent == 3      \* calls of saveECGSession and deleteECGSession in one run

StoreCallStarts(call) ==
    /\ Len(storeCalls) < MaxConcurrent
    /\ storeCalls' = Append(storeCalls, call)

\* lines 75-85: the new session is built, then getItem is awaited
callSaveECGSession(ecgSession, now) ==
    /\ StoreCallStarts([ op |-> "save", at |-> "getItem", id |-> nextId,
                         newSession |-> << [id |-> nextId, timestamp |-> now] @@ ecgSession >>,
                         sessions |-> << >> ])
    /\ nextId' = nextId + 1
    /\ UNCHANGED << sessionsItem, statisticsItem >>

\* lines 135-137
callDeleteECGSession(id) ==
    /\ StoreCallStarts([ op |-> "delete", at |-> "getItem", id |-> id,
                         newSession |-> << >>, sessions |-> << >> ])
    /\ UNCHANGED << sessionsItem, statisticsItem, nextId >>

\* lines 85-91 and 137-140: the list read, changed, and handed to setItem
GetItemDone(c) ==
    /\ storeCalls[c].at = "getItem"
    /\ LET sessions == getAllECGSessions(sessionsItem, TRUE)
           changed == IF storeCalls[c].op = "save"
                      THEN unshift(sessions, storeCalls[c].newSession[1])
                      ELSE SelectSeq(sessions, LAMBDA x : x.id # storeCalls[c].id)
       IN  storeCalls' = [storeCalls EXCEPT ![c].at = "setItem", ![c].sessions = changed]
    /\ UNCHANGED << sessionsItem, statisticsItem, nextId >>

\* lines 91-94 and 140-143: the item written, updateStatistics called
SetItemDone(c) ==
    /\ storeCalls[c].at = "setItem"
    /\ sessionsItem' = << JSONstringify(storeCalls[c].sessions) >>
    /\ storeCalls' = [storeCalls EXCEPT ![c].at = "statisticsGetItem"]
    /\ UNCHANGED << statisticsItem, nextId >>

\* line 271
StatisticsGetItemDone(c) ==
    /\ storeCalls[c].at = "statisticsGetItem"
    /\ storeCalls' = [storeCalls EXCEPT ![c].at = "statisticsSetItem",
                                        ![c].sessions = getAllECGSessions(sessionsItem, TRUE)]
    /\ UNCHANGED << sessionsItem, statisticsItem, nextId >>

\* lines 273-311, then the call returns (lines 96, 145)
StatisticsSetItemDone(c) ==
    /\ storeCalls[c].at = "statisticsSetItem"
    /\ LET r == calculateStatistics(storeCalls[c].sessions)
       IN  statisticsItem' = IF r.stored THEN << r.statistics >> ELSE statisticsItem
    /\ storeCalls' = [storeCalls EXCEPT ![c].at = "returned"]
    /\ UNCHANGED << sessionsItem, nextId >>

NextStorageRace ==
    /\ \/ \E s \in StoreSessions, now \in Times : callSaveECGSession(s, now)
       \/ \E id \in 1..MaxConcurrent : callDeleteECGSession(id)
       \/ \E c \in DOMAIN storeCalls : GetItemDone(c)
       \/ \E c \in DOMAIN storeCalls : SetItemDone(c)
       \/ \E c \in DOMAIN storeCalls : StatisticsGetItemDone(c)
       \/ \E c \in DOMAIN storeCalls : StatisticsSetItemDone(c)
    /\ UNCHANGED << connection, decoder, dashboard, fakeData, returned, completed, ops >>

SpecStorageRace == InitSession /\ [][NextStorageRace]_vars

\* ======================================================== the generator
\* src/services/FakeData.ts on its own: its exported functions are called
\* in any order by a caller whose callback is not modelled.  Voltages are
\* computed in millionths of a millivolt.  Math.random() is an input: each
\* evaluation of line 25 draws one value.
MaxPoints == 5          \* timer ticks after a start
MaxCount == 3           \* the largest count passed to generateECGBatch
MaxBatches == 2         \* calls of generateECGBatch in one run
Randoms == {Whole(0), Rat(1, 2)}    \* values of Math.random()

\* 1000 * Math.sin(k * Math.PI / m) for 0 <= k <= m, to within 2 (Bhaskara's
\* rational approximation of the sine)
sinPi(k, m) == (16000 * k * (m - k)) \div (5 * m * m - 4 * k * (m - k))

\* 1000000 * 0.03 * Math.sin(point * 0.01), by the sine's series up to the
\* cubic term (point stays far below 100 * Math.PI / 2)
baselineWander(point) == (60000 * point - point * point * point) \div 200

\* value.toFixed(3) of a number of millionths, as its count of thousandths:
\* the nearest one, a tie going away from zero
toFixed3(micro) ==
    LET t == (2 * Abs(micro) + 1000) \div 2000
    IN  IF micro < 0 THEN -t ELSE t

\* parseFloat of such a string
parseFloat3(thousandths) == Rat(thousandths, 1000)

\* lines 18-65, random being what Math.random() returned at line 25
generateRealisticECGValue(point, random) ==
    LET cycle == point % 100
        noise == (random.n * 50000) \div random.d - 25000
        pWave == IF cycle >= 10 /\ cycle <= 20 THEN 150 * sinPi(cycle - 10, 10) ELSE 0
        qrs == IF cycle >= 30 /\ cycle <= 45
               THEN IF cycle - 30 < 3 THEN -(100 * sinPi(cycle - 30, 3))
                    ELSE IF cycle - 30 < 9 THEN 1200 * sinPi(cycle - 33, 6)
                    ELSE -(200 * sinPi(cycle - 39, 6))
               ELSE 0
        tWave == IF cycle >= 60 /\ cycle <= 80 THEN 250 * sinPi(cycle - 60, 20) ELSE 0
    IN  parseFloat3(toFixed3(noise + pWave + qrs + tWave + baselineWander(point)))

generateECGBatch_FromDataPoint(count, noise) ==
    [i \in 1..count |-> generateRealisticECGValue(dataPoint + i - 1, noise[i])]

\* lines 104-110: data[i] is the value pushed for the loop index i - 1, noise[i]
\* what Math.random() returned in that iteration
generateECGBatch(count, noise) ==
    [i \in 1..count |-> generateRealisticECGValue(i - 1, noise[i])]

NoTimer == 0
MaxRuns == 3            \* calls of startECGSimulation in one run

startECGSimulation_NoStop ==
    /\ simStarts < MaxRuns
    /\ simStarts' = simStarts + 1
    /\ simTimers' = simTimers \cup {simStarts + 1}
    /\ simHandle' = simStarts + 1
    /\ interval' = TRUE
    /\ dataPoint' = 0
    /\ UNCHANGED << emitted, batches >>

\* lines 73-86 (stopECGSimulation first, lines 91-96): the call supplies its
\* callback, which the timer it arms will invoke
startECGSimulation ==
    /\ simStarts < MaxRuns
    /\ simStarts' = simStarts + 1
    /\ simTimers' = (simTimers \ {simHandle}) \cup {simStarts + 1}
    /\ simHandle' = simStarts + 1
    /\ interval' = TRUE
    /\ dataPoint' = 0
    /\ UNCHANGED << emitted, batches >>

\* lines 91-96
stopECGSimulation ==
    /\ simTimers' = simTimers \ {simHandle}
    /\ simHandle' = NoTimer
    /\ interval' = FALSE
    /\ UNCHANGED << dataPoint, simStarts, emitted, batches >>

\* lines 81-85: a live timer fires and invokes the callback of the call that
\* armed it
IntervalFires(timer, random) ==
    /\ timer \in simTimers
    /\ dataPoint < MaxPoints
    /\ emitted' = << [ value |-> generateRealisticECGValue(dataPoint, random),
                       index |-> dataPoint, callback |-> timer ] >>
    /\ dataPoint' = dataPoint + 1
    /\ UNCHANGED << interval, simStarts, simTimers, simHandle, batches >>

\* lines 104-110, called while the timer is live or not; the call is recorded
\* with the timer's state at the time and whether the running index had moved
callGenerateECGBatch(count, noise) ==
    /\ Len(batches) < MaxBatches
    /\ batches' = Append(batches, [ count |-> count, noise |-> noise,
                                    data |-> generateECGBatch(count, noise),
                                    running |-> interval, moved |-> dataPoint > 0 ])
    /\ UNCHANGED << generator, simStarts, simTimers, simHandle, emitted >>

NextGenerator ==
    /\ \/ startECGSimulation
       \/ stopECGSimulation
       \/ \E timer \in 1..MaxRuns, random \in Randoms : IntervalFires(timer, random)
       \/ \E count \in 0..MaxCount :
              \E noise \in [1..count -> Randoms] : callGenerateECGBatch(count, noise)
    /\ UNCHANGED << flags, session, estimator, bleSource, async, ui, stored, stream,
                    presses, autoSaveRead, unmounted >>
    /\ UNCHANGED << connection, decoder, storage >>

SpecGenerator == InitSession /\ [][NextGenerator]_vars

\* The simulation alone: only startECGSimulation, stopECGSimulation and the
\* timer.
NextSimulation ==
    /\ \/ startECGSimulation
       \/ stopECGSimulation
       \/ \E timer \in 1..MaxRuns, random \in Randoms : IntervalFires(timer, random)
    /\ UNCHANGED << flags, session, estimator, bleSource, async, ui, stored, stream,
                    presses, autoSaveRead, unmounted >>
    /\ UNCHANGED << connection, decoder, storage >>

SpecSimulation == InitSession /\ [][NextSimulation]_vars

\* ============================================ the dashboard on its manager
\* The Dashboard of part_000 calling the connection manager itself, from a
\* press of Start to the unmount of the component, in the runs in which
\* Stop is not pressed.  The samples' way through handleECGData is the
\* subject of SpecSession and SpecCallback and is left out here, as are the
\* generator's ticks: `interval` says whether its timer is armed.

\* the connect call startMonitoring awaits (line 84): the latest one made
AwaitedCall(a) ==
    /\ pc[a] # "idle"
    /\ \A b \in Attempts : b > a => pc[b] = "idle"

\* lines 73-84: Start pressed, up to the first await inside connectToECGDevice
StartPressed(a) ==
    /\ ~unmounted
    /\ startMonitoring
    /\ connectToECGDevice(a)
    /\ UNCHANGED << decoder, services >>

\* lines 84-112: the awaited call has returned
ConnectAnswered(a) ==
    /\ AwaitedCall(a)
    /\ ret[a] # "none"
    /\ ConnectReturns(ret[a] = "true")
    /\ UNCHANGED << connection, decoder, services >>

\* a button of the open alert pressed
AlertButton ==
    /\ ~unmounted
    /\ FallbackCancel \/ startFakeDataSimulation \/ DismissAlert
    /\ UNCHANGED << connection, decoder, services >>

\* lines 161-170: the cleanup of the effect, run when the component unmounts
Unmount(k) ==
    /\ ~unmounted
    /\ unmounted' = TRUE
    /\ IF useFakeData
       THEN /\ interval' = FALSE
            /\ UNCHANGED connection
       ELSE /\ UNCHANGED interval
            /\ IF isConnected
               THEN disconnectFromECGDevice(k)
               ELSE UNCHANGED connection
    /\ UNCHANGED << flags, session, estimator, dataPoint, bleSource, async, ui, stored,
                    stream, presses, autoSaveRead, decoder, services >>

NextMounted ==
    \/ \E a \in Attempts : StartPressed(a)
    \/ Continue /\ UNCHANGED << decoder, dashboard, services >>
    \/ \E a \in Attempts : ConnectAnswered(a)
    \/ AlertButton
    \/ \E k \in Disconnects : Unmount(k)

SpecMounted == Init /\ [][NextMounted]_vars

\* ================================================================ claims

\* A step of disconnect call k that completes it.
DisconnectCompletes(k) == dpc[k] # "done" /\ dpc'[k] = "done"

\* C1: connect() called while the state is CONNECTED and a handle is owned
\* returns true at once and starts nothing: no permission request, no scan,
\* no timer; status, handle and sample source are unchanged.
C1_ConnectWhileConnectedIsNoOp ==
    [][\A a \in Attempts :
          (connectToECGDevice(a) /\ currentStatus = CONNECTED /\ connectedDevice # Null)
          => /\ ret'[a] = "true"
             /\ pc'[a] = "done"
             /\ UNCHANGED << currentStatus, connectedDevice, subscription,
                             scanTimeout, scanned, perm, library >>]_vars

\* C1 witness: a connect call returned true without ever scanning.
C1_Witness ==
    \E a \in Attempts :
        /\ ret[a] = "true" /\ a \notin scanned /\ perm[a] = "none"
        /\ currentStatus = CONNECTED /\ connectedDevice # Null

\* C2 (as claimed): whenever a disconnect() call completes, the state is
\* DISCONNECTED, no handle is owned, no subscription or poll timer is live
\* and no scan timeout is pending.
C2_DisconnectLeavesNothing ==
    [][\A k \in Disconnects :
          DisconnectCompletes(k)
          => /\ currentStatus' = DISCONNECTED
             /\ connectedDevice' = Null
             /\ subscription' = NoSubscription
             /\ monitors' = {} /\ intervals' = {}
             /\ timers' = {}]_vars

\* C3 (as claimed): at most one peripheral link opened by the manager exists.
C3_AtMostOneLink == Cardinality(links) <= 1

\* C4 (as claimed): the state leaves ERROR only by a disconnect() call
\* completing, and then to DISCONNECTED.
C4_ErrorLeftOnlyByDisconnect ==
    [][(currentStatus = ERROR /\ currentStatus' # ERROR)
          => /\ currentStatus' = DISCONNECTED
             /\ \E k \in Disconnects : DisconnectCompletes(k)]_vars

\* C4 (amended): the state leaves ERROR only by a disconnect() call completing
\* (to DISCONNECTED) or by a step of a connect() call that has not failed,
\* i.e. one made after the failure; the state enters ERROR only as a connect
\* call fails, and a failed call leaves no continuation of any connect call
\* pending, so no late scan result, timer or automatic retry can move the
\* state.
C4_ErrorLeftOnlyByNewCall ==
    /\ [][(currentStatus = ERROR /\ currentStatus' # ERROR)
            => \/ /\ currentStatus' = DISCONNECTED
                  /\ \E k \in Disconnects : DisconnectCompletes(k)
               \/ \E a \in Attempts :
                     pc[a] # pc'[a] /\ ret[a] = "none" /\ pc[a] \notin {"idle",
                     "done"}]_vars
    /\ [][(currentStatus # ERROR /\ currentStatus' = ERROR)
            => \E a \in Attempts : ret[a] = "none" /\ ret'[a] = "false"]_vars
    /\ [][\A a \in Attempts :
            (ret[a] = "none" /\ ret'[a] = "false") => NoConnectInFlight']_vars

\* C4 witness: a second connect call, made in ERROR without a disconnect in
\* between, has moved the state on.
C4_Witness ==
    \E a, b \in Attempts :
        /\ a < b /\ ret[a] = "false" /\ pc[b] = "scanning"
        /\ currentStatus = SCANNING
        /\ \A k \in Disconnects : dpc[k] = "idle"

\* C5: with calls serialized, a connect() call that returns true leaves the
\* state CONNECTED with a handle owned, and one that returns false leaves the
\* state ERROR.
C5_ReturnValueMatchesState ==
    [][\A a \in Attempts :
          ret[a] = "none"
          => /\ ret'[a] = "true" => (currentStatus' = CONNECTED /\ connectedDevice' # Null)
             /\ ret'[a] = "false" => currentStatus' = ERROR]_vars

\* C5 witness: a call that scanned has returned true and another has returned false.
C5_Witness ==
    \E a, b \in Attempts :
        /\ ret[a] = "false"
        /\ ret[b] = "true" /\ b \in scanned
        /\ currentStatus = CONNECTED /\ connectedDevice # Null

\* C6: with calls serialized, when the scan timer of a call fires while the
\* state is SCANNING (no matching device was reported), the scan is stopped,
\* the state becomes ERROR, the call's status callback receives ERROR and the
\* call returns false.
C6_ScanTimeout ==
    [][\A a \in Attempts :
          (ScanTimeoutFires(a) /\ currentStatus = SCANNING)
          => /\ scanListener' = NoAttempt
             /\ currentStatus' = ERROR
             /\ observed'[a] = Append(observed[a], ERROR)
             /\ ret[a] = "none" /\ ret'[a] = "false"]_vars

\* C6 witness: a call timed out: it scanned, matched no device and returned
\* false after its callback saw SCANNING then ERROR.
C6_Witness ==
    \E a \in Attempts :
        /\ a \in scanned /\ dev[a] = Null /\ ret[a] = "false"
        /\ a \notin timers /\ scanListener = NoAttempt
        /\ observed[a] = << SCANNING, ERROR >>
        /\ currentStatus = ERROR

\* C7: when the permissions are denied, or granted with the radio not powered
\* on, the call sets ERROR and returns false, and it never starts a scan or
\* arms the scan timer.
C7_NoScanWithoutPermissionAndRadio ==
    /\ [][\A a \in Attempts :
            \/ perm[a] = "none" /\ perm'[a] = "denied"
            \/ radio[a] = "none" /\ radio'[a] \notin {"none", "PoweredOn"}
            => /\ currentStatus' = ERROR
               /\ ret'[a] = "false"
               /\ UNCHANGED << scanListener, timers, scanTimeout, scanned >>]_vars
    /\ [](\A a \in Attempts :
            (perm[a] = "denied" \/ radio[a] \notin {"none", "PoweredOn"})
            => a \notin scanned /\ a \notin timers /\ scanListener # a)

\* C7 witness: one call was denied permissions and another found the radio off.
C7_Witness ==
    \E a, b \in Attempts :
        /\ perm[a] = "denied" /\ ret[a] = "false"
        /\ perm[b] = "granted" /\ radio[b] = "PoweredOff" /\ ret[b] = "false"
        /\ currentStatus = ERROR

\* C8 (as claimed): every step of a connect call that moves the state to
\* ERROR hands ERROR to the status callback passed to that call.
C8_ErrorReachesCallback ==
    [][\A a \in Attempts :
          (pc[a] # pc'[a] /\ currentStatus # ERROR /\ currentStatus' = ERROR)
          => observed'[a] = Append(observed[a], ERROR)]_vars

\* C9 (as claimed): an I/O error reported by monitoring in state CONNECTED
\* moves the state to ERROR.
C9_MonitorErrorIsError ==
    [][\A a \in Attempts :
          ((MonitorError(a) \/ PollReadDone(a, "error")) /\ currentStatus = CONNECTED)
          => currentStatus' = ERROR]_vars

\* C10 (as claimed): an attempt whose target attribute is not found fails:
\* the state becomes ERROR and the call returns false.
C10_AttributeNotFoundFails ==
    [][\A a \in Attempts :
          (attr[a] = "none" /\ attr'[a] = "missing")
          => currentStatus' = ERROR /\ ret'[a] = "false"]_vars

\* A step taken by a disconnect call.
DisconnectStep ==
    \E k \in Disconnects : disconnectFromECGDevice(k) \/ CancelConnectionDone(k)

\* C11: once a disconnect call has completed, and until connect is called
\* anew, the sample callback is not invoked and nothing but a disconnect call
\* changes the connection state, also when a handshake or a poll read was in
\* flight when disconnect was called.
C11_QuietAfterDisconnect ==
    [][(tornDown /\ tornDown')
          => \/ DisconnectStep
             \/ /\ delivered' = delivered
                /\ currentStatus' = currentStatus]_vars

\* A handler run that has just consumed the characteristic value in flight.
HandlerRuns == characteristic # << >> /\ characteristic' = << >>

\* C12: a zero-length payload hands no sample to the sample callback, and a
\* payload that arrives afterwards (any non-empty one) is still decoded and
\* handed on, exactly once.
C12_EmptyPayloadDropped ==
    [][HandlerRuns =>
          IF Len(Head(characteristic).bytes) = 0
          THEN handedOn' = handedOn /\ lastCall'[1].onData = << >>
          ELSE handedOn' = handedOn + 1 /\ Len(lastCall'[1].onData) = 1]_vars

\* An empty payload was dropped and the payload after it was delivered.
C12_Witness ==
    /\ handled = 2
    /\ handedOn = 1
    /\ lastCall # << >>
    /\ lastCall[1].onData # << >>

\* The sample v is the integer k divided by q.
IsQuotient(v, k, q) == v.d # 0 /\ v.n * q = k * v.d

\* C13: a payload of 2 or 3 bytes decodes to its first two bytes read as a
\* little-endian signed 16-bit integer, divided by 1000 (0xFF 0xFF gives
\* -0.001); a payload of exactly 1 byte decodes to that byte, unsigned,
\* divided by 10.
C13_ShortPayloads ==
    \A i \in DOMAIN lastCall :
        LET p == lastCall[i].payload
            out == lastCall[i].onData
        IN  /\ Len(p) \in {2, 3} =>
                /\ Len(out) = 1
                /\ \E k \in {p[1] + 256 * p[2], p[1] + 256 * p[2] - 65536} :
                      k \in -32768..32767 /\ IsQuotient(out[1], k, 1000)
            /\ Len(p) = 1 => Len(out) = 1 /\ IsQuotient(out[1], p[1], 10)
            /\ p = << 255, 255 >> => out = << [n |-> -1, d |-> 1000] >>

C13_Witness ==
    /\ lastCall # << >>
    /\ lastCall[1].payload = << 255, 255 >>
    /\ lastCall[1].onData = << [n |-> -1, d |-> 1000] >>

\* The binary32 encoding of a finite non-zero dyadic rational: x.a / x.d is
\* brought into [1, 2) by doubling or halving, e counts the steps.
RECURSIVE Normalized(_)
Normalized(x) ==
    IF x.a >= 2 * x.d THEN Normalized([a |-> x.a, d |-> 2 * x.d, e |-> x.e + 1])
    ELSE IF x.a < x.d THEN Normalized([a |-> 2 * x.a, d |-> x.d, e |-> x.e - 1])
    ELSE x

\* The four bytes, least significant first, of the binary32 number equal to v.
Float32Bytes(v) ==
    IF v.n = 0 THEN << 0, 0, 0, 0 >>
    ELSE LET x == Normalized([a |-> Abs(v.n), d |-> v.d, e |-> 0])
             m == IF x.d >= 8388608
                  THEN (x.a - x.d) \div (x.d \div 8388608)
                  ELSE (x.a - x.d) * (8388608 \div x.d)
             e == x.e + 127
             s == IF v.n < 0 THEN 128 ELSE 0
         IN  << m % 256, (m \div 256) % 256, (e % 2) * 128 + m \div 65536,
                s + e \div 2 >>

\* C14: a payload of 4 or more bytes decodes to the number whose IEEE-754
\* single-precision little-endian encoding is its first four bytes, whatever
\* bytes follow; 0x00 0x00 0x80 0x3F decodes to 1.0.
C14_FloatPayloads ==
    \A i \in DOMAIN lastCall :
        LET p == lastCall[i].payload
            out == lastCall[i].onData
        IN  /\ Len(p) >= 4 =>
                /\ Len(out) = 1
                /\ out[1].d # 0
                /\ Float32Bytes(out[1]) = SubSeq(p, 1, 4)
            /\ (Len(p) >= 4 /\ SubSeq(p, 1, 4) = << 0, 0, 128, 63 >>)
                  => out = << [n |-> 1, d |-> 1] >>

C14_Witness ==
    /\ lastCall # << >>
    /\ lastCall[1].payload = << 0, 0, 128, 63, 255 >>
    /\ lastCall[1].onData = << [n |-> 1, d |-> 1] >>

\* C15: whatever samples arrive, every heart-rate estimate is an integer in
\* the closed range 50..180: the displayed estimate and every estimate
\* recorded for the session.
C15_EstimateInRange ==
    /\ heartRate \in 50..180
    /\ \A i \in DOMAIN sessionHeartRates : sessionHeartRates[i] \in 50..180

\* an estimate cut down to 180 and, earlier in the same session, one raised
\* to 50
C15_Witness ==
    /\ sessionHeartRates # << >>
    /\ heartRate = 180
    /\ Cardinality({i \in DOMAIN heartRateCalculationBuffer :
                       isPeak(heartRateCalculationBuffer[i])}) > 30
    /\ sessionHeartRates[1] = 50
    /\ ~isPeak(sessionECGValues[1])

\* the samples of the session that count for the estimate after the last one:
\* the most recent min(n, 50) of them that are strictly greater than 3/2
RecentPeaks ==
    LET n == Len(sessionECGValues)
        first == IF n > 50 THEN n - 49 ELSE 1
    IN  {i \in first..n : 2 * sessionECGValues[i].n > 3 * sessionECGValues[i].d}

Clamped(x) == IF x < 50 THEN 50 ELSE IF x > 180 THEN 180 ELSE x

\* C16: after the n-th sample of a session the estimate is 6 times the number
\* of samples strictly greater than 1.5 among the most recent min(n, 50),
\* clamped to 50..180; after fifty samples of 1.0 it is 50.
C16_EstimateFormula ==
    /\ (sessionStartTime # NoTime /\ sessionECGValues # << >>) =>
          /\ heartRate = Clamped(6 * Cardinality(RecentPeaks))
          /\ Last(sessionHeartRates) = heartRate
          /\ Len(sessionHeartRates) = Len(sessionECGValues)
    /\ (sessionStartTime # NoTime /\ sessionECGValues = [i \in 1..50 |-> [n |-> 1, d |-> 1]])
          => heartRate = 50

\* more than fifty samples, the oldest of them a peak that no longer counts,
\* and an estimate strictly between the two clamps
C16_Witness ==
    /\ sessionStartTime # NoTime
    /\ Len(sessionECGValues) > 50
    /\ isPeak(sessionECGValues[1])
    /\ heartRate = 6 * Cardinality(RecentPeaks)
    /\ heartRate \in 51..179
    /\ Cardinality(RecentPeaks) < Cardinality({i \in DOMAIN sessionECGValues :
                                                  isPeak(sessionECGValues[i])})

\* the fifty samples of 1.0 of the example
C16_WitnessFlat ==
    /\ sessionStartTime # NoTime
    /\ sessionECGValues = [i \in 1..50 |-> [n |-> 1, d |-> 1]]
    /\ heartRate = 50

\* every Session record there is: built and waiting to be written, offered to
\* the user, being written at the user's request, or stored
Produced ==
    {draft[i] : i \in DOMAIN draft} \cup {offered[i] : i \in DOMAIN offered}
        \cup {saving[i] : i \in DOMAIN saving} \cup {stored[i] : i \in DOMAIN stored}

\* C17: the status of every produced Session follows from its average heart
\* rate alone: elevated iff above 85, low iff below 65, normal otherwise; an
\* average of 64 gives low, 65 and 85 give normal, 86 gives elevated.
C17_StatusFromAverage ==
    /\ \A s \in Produced :
          /\ s.status = "elevated" <=> s.heartRate > 85
          /\ s.status = "low" <=> s.heartRate < 65
          /\ s.status = "normal" <=> (s.heartRate >= 65 /\ s.heartRate <= 85)
    /\ statusOf(64) = "low"
    /\ statusOf(65) = "normal"
    /\ statusOf(85) = "normal"
    /\ statusOf(86) = "elevated"

\* a record whose average sits on the upper boundary and is still normal
C17_Witness ==
    \E s \in Produced : s.heartRate = 85 /\ s.status = "normal" /\ Len(s.ecgData) > 1

\* a press of Stop Monitoring: the only step that ends scanning
StopPressed == isScanning /\ ~isScanning'

\* C18: stopping a session that received no samples produces no Session
\* record: the stop ends without a summary being started, nothing is stored
\* and nothing is offered for saving, whatever the autoSave preference; no
\* record ever holds zero samples.
C18_EmptySessionDiscarded ==
    [][/\ (StopPressed /\ sessionECGValues = << >>) =>
              /\ stopPc' = "none"
              /\ ~isSaving'
              /\ UNCHANGED << draft, offered, saving, stored, alerts >>
       /\ \A s \in Produced' : Len(s.ecgData) >= 1]_vars

\* the session was started, stopped before any sample and nothing came of it
C18_Witness ==
    /\ stops = 1
    /\ fed = 0
    /\ ~isScanning
    /\ stopPc = "none"
    /\ Produced = {}
    /\ alerts = << >>

\* x is a whole number of hundredths and the nearest one to the mean of
\* count numbers whose thousandths add up to milli, a tie either way
NearestHundredth(x, milli, count) ==
    /\ x.d # 0
    /\ 100 % x.d = 0
    /\ 2 * Abs(10 * count * (x.n * (100 \div x.d)) - milli) <= 10 * count

\* a number as a count of thousandths, for numbers that are one
Milli(v) == (v.n * 1000) \div v.d

\* C19 as stated: a session stopped after exactly one sample v yields a
\* Session whose minECG, maxECG and avgECG all equal v and whose average
\* heart rate is the estimator's output for that one sample.
C19_SingleSampleExact ==
    \A s \in Produced : Len(s.ecgData) = 1 =>
        LET v == s.ecgData[1]
        IN  /\ s.minECG = v
            /\ s.maxECG = v
            /\ s.avgECG = v
            /\ s.heartRate = Clamped(IF 2 * v.n > 3 * v.d THEN 6 ELSE 0)

\* C19: a session stopped after exactly one sample v yields a Session whose
\* minECG and maxECG equal v, whose avgECG is v rounded to 2 decimals, and
\* whose average heart rate is the estimator's output for that one sample.
C19_SingleSampleRounded ==
    \A s \in Produced : Len(s.ecgData) = 1 =>
        LET v == s.ecgData[1]
        IN  /\ s.minECG = v
            /\ s.maxECG = v
            /\ NearestHundredth(s.avgECG, Milli(v), 1)
            /\ s.heartRate = Clamped(IF 2 * v.n > 3 * v.d THEN 6 ELSE 0)

\* a one-sample record whose sample has three decimals
C19_Witness ==
    \E s \in Produced :
        /\ s.ecgData = << [n |-> 617, d |-> 500] >>
        /\ s.avgECG = [n |-> 123, d |-> 100]
        /\ s.minECG = [n |-> 617, d |-> 500]

RECURSIVE Total(_)
Total(ints) == IF ints = << >> THEN 0 ELSE Head(ints) + Total(Tail(ints))

\* s summarises the recorded heart rates and samples: the nearest integer to
\* the mean heart rate, the least and the greatest sample, and the mean
\* sample to the nearest hundredth
Summarises(s, rates, samples) ==
    /\ s.heartRate \in Int
    /\ 2 * Abs(Len(rates) * s.heartRate - Total(rates)) <= Len(rates)
    /\ \E i \in DOMAIN samples : s.minECG = samples[i]
    /\ \A i \in DOMAIN samples : s.minECG.n * samples[i].d <= samples[i].n * s.minECG.d
    /\ \E i \in DOMAIN samples : s.maxECG = samples[i]
    /\ \A i \in DOMAIN samples : s.maxECG.n * samples[i].d >= samples[i].n * s.maxECG.d
    /\ NearestHundredth(s.avgECG, Total([i \in DOMAIN samples |-> Milli(samples[i])]),
                        Len(samples))
    /\ s.ecgData = samples

\* the summary is being computed from a session that has samples
SummaryStep == stopPc = "settings" /\ stopPc' # "settings" /\ sessionECGValues # << >>

\* the record the step has built: to be written, or offered to the user
Built == IF stopPc' = "persist" THEN draft'[1] ELSE offered'[1]

\* the summary of samples 0.9, 1.1, 2.0 recorded with heart rates 60, 60, 66
Example20 ==
    buildSession(<< 60, 60, 66 >>,
                 << [n |-> 9, d |-> 10], [n |-> 11, d |-> 10], [n |-> 2, d |-> 1] >>, 7)

Example20Numbers ==
    /\ Example20.avgECG = [n |-> 133, d |-> 100]
    /\ Example20.minECG = [n |-> 9, d |-> 10]
    /\ Example20.maxECG = [n |-> 2, d |-> 1]
    /\ Example20.heartRate = 62

\* C20 as stated: every stop with at least one sample gives the mean heart
\* rate rounded to the nearest integer, the minimum and maximum sample and
\* the mean sample rounded to 2 decimals; samples 0.9, 1.1, 2.0 with heart
\* rates 60, 60, 66 give 1.33, 0.9, 2.0, 62 and status normal.
C20_SummaryStatusNormal ==
    [][/\ SummaryStep => Summarises(Built, sessionHeartRates, sessionECGValues)
       /\ Example20Numbers
       /\ Example20.status = "normal"]_vars

\* C20: every stop with at least one sample gives the mean heart rate rounded
\* to the nearest integer, the minimum and maximum sample and the mean sample
\* rounded to 2 decimals; samples 0.9, 1.1, 2.0 with heart rates 60, 60, 66
\* give 1.33, 0.9, 2.0, 62 and status low.
C20_SummaryStatusLow ==
    [][/\ SummaryStep => Summarises(Built, sessionHeartRates, sessionECGValues)
       /\ Example20Numbers
       /\ Example20.status = "low"]_vars

\* a record of a long session whose heart rates and samples both vary, the
\* mean sample not a whole number of hundredths
C20_Witness ==
    \E s \in Produced :
        /\ Len(s.ecgData) > 50
        /\ s.minECG # s.maxECG
        /\ s.heartRate \notin {50, 180}
        /\ (Total([i \in DOMAIN s.ecgData |-> Milli(s.ecgData[i])]) * 100)
               % (1000 * Len(s.ecgData)) # 0

\* a sample has been delivered to the sample callback
SampleDelivered == fed' = fed + 1

\* no monitoring is going on: nothing is scanning, starting, stopping or
\* being summarised
MonitoringIdle ==
    /\ ~isScanning
    /\ ~isConnecting
    /\ ~isSaving
    /\ startPc = "none"
    /\ stopPc = "none"

Settled22 ==
    /\ startPc = "none"
    /\ stopPc = "none"
    /\ ~isSaving
    /\ \A i \in DOMAIN alerts : alerts[i] # "fallback"

\* C22: in every settled state a session is active (a start timestamp is
\* recorded) if and only if monitoring is active (the connection or the
\* generator is the current sample source); no session stays active after a
\* failed or cancelled start or after a stop that produced no record.
C22_SessionIffMonitoring ==
    Settled22 => (sessionStartTime # NoTime <=> (interval \/ bleSource))

\* a stop comes to its end: at once, or when its summary or its write does
StopCompletes ==
    \/ StopPressed /\ stopPc' = "none"
    \/ stopPc # "none" /\ stopPc' = "none"

\* C23: after a stop has completed both session buffers are empty and no
\* session is active, whether the stop produced a record, produced none
\* because the buffers were empty, or failed while persisting.
C23_ClearedAfterStop ==
    [][StopCompletes =>
          /\ sessionHeartRates' = << >>
          /\ sessionECGValues' = << >>
          /\ sessionStartTime' = NoTime]_vars

\* saveECGSession has rejected: in saveSession, or in the alert's Save handler
PersistFails == stopPc = "persist" /\ stopPc' = "none" /\ stored' = stored
SaveFails == saving # << >> /\ saving' = Tail(saving) /\ stored' = stored

\* C24: if persisting a stopped session fails, the failure is reported to the
\* user and the computed Session, with its samples, remains available so that
\* saving can be retried without recording again.
C24_RetainedOnFailure ==
    [][/\ PersistFails =>
              /\ alerts' # << >> /\ Last(alerts') = "saveError"
              /\ draft[1] \in Produced'
       /\ SaveFails =>
              /\ alerts' # << >> /\ Last(alerts') = "saveError"
              /\ Head(saving) \in Produced']_vars

\* a Session record comes into being
RecordBuilt ==
    \/ draft' # draft /\ draft' # << >>
    \/ offered' # offered /\ offered' # << >>

AlertAnswered == alerts # << >> /\ Last(alerts) = "saveSession" /\ alerts' = Front(alerts)

\* C26: with autoSave enabled a stop of a non-empty session persists its
\* Session exactly once without user interaction (unless the write fails);
\* with autoSave disabled nothing is persisted unless the user confirms Save,
\* and Discard persists nothing.
C26_AutoSaveDecides ==
    [][/\ (SummaryStep /\ autoSaveRead' = "on") =>
              /\ draft' = << Built >>
              /\ stopPc' = "persist"
              /\ UNCHANGED << alerts, offered, saving, stored >>
       /\ (stopPc = "persist" /\ stopPc' # "persist") =>
              /\ autoSaveRead = "on"
              /\ draft' = << >>
              /\ \/ stored' = << draft[1] >> \o stored
                 \/ stored' = stored /\ Last(alerts') = "saveError"
       /\ (SummaryStep /\ autoSaveRead' = "off") =>
              /\ offered' = << Built >>
              /\ alerts' = Append(alerts, "saveSession")
              /\ UNCHANGED << draft, saving, stored >>
       /\ SummaryStep => autoSaveRead' \in {"on", "off"}
       /\ AlertAnswered =>
              /\ offered' = << >>
              /\ stored' = stored
              /\ saving' \in {saving, Append(saving, offered[1])}
       /\ saving' # saving =>
              \/ AlertAnswered
              \/ /\ saving' = Tail(saving)
                 /\ stored' \in {stored, << Head(saving) >> \o stored}
       /\ stored' # stored =>
              \/ stopPc = "persist" /\ stopPc' # "persist"
              \/ saving # << >> /\ saving' = Tail(saving)]_vars

\* a session persisted by autoSave with no alert answered on the way
C26_Witness ==
    /\ autoSaveRead = "on"
    /\ stops = 1
    /\ Len(stored) = 1
    /\ alerts = << "saved" >>
    /\ sessionStartTime = NoTime

\* a second session persisted on the user's Save
C26_WitnessSave ==
    /\ Len(stored) = 2
    /\ autoSaveRead = "off"
    /\ saving = << >>
    /\ alerts = << "success" >>

\* a session was offered and discarded: nothing is stored, offered or being
\* written
C26_WitnessDiscard ==
    /\ autoSaveRead = "off"
    /\ stops = 1
    /\ fed = 1
    /\ Produced = {}
    /\ alerts = << >>
    /\ sessionStartTime = NoTime


\* C27: whatever saves, deletions, delete-alls and imports came before, the
\* list getAllECGSessions returns is in non-increasing order of timestamp.
C27_NewestFirst ==
    \A i \in 1..(Len(returned) - 1) : returned[i].timestamp >= returned[i + 1].timestamp

\* two sessions stored with the older one first were returned newest first
C27_Witness ==
    /\ Len(returned) = 2
    /\ returned[1].timestamp > returned[2].timestamp
    /\ sessionsItem # << >>
    /\ Len(sessionsItem[1]) = 2
    /\ sessionsItem[1][1].timestamp < sessionsItem[1][2].timestamp

\* what the statistics screen reads (getStatistics, lines 243-251)
StatisticsRead ==
    IF statisticsItem # << >> THEN statisticsItem[1]
    ELSE calculateStatistics(getAllECGSessions(sessionsItem, TRUE)).statistics

StatisticsAgree ==
    /\ StatisticsRead.totalSessions = Len(getAllECGSessions(sessionsItem, TRUE))
    /\ StatisticsRead.normalReadings + StatisticsRead.elevatedReadings
           + StatisticsRead.lowReadings = StatisticsRead.totalSessions

StoreChanged ==
    \/ \E s \in StoreSessions, now \in Times, fault \in Faults : saveECGSession(s, now, fault)
    \/ \E id \in SessionIds, fault \in Faults : deleteECGSession(id, fault)
    \/ \E fault \in Faults : deleteAllECGSessions(fault)
    \/ \E data \in Imports, fault \in Faults : importDataFromJSON(data, fault)

\* C28: when a save, a deletion, a delete-all or an import has completed, the
\* stored statistics agree with the stored sessions: totalSessions is their
\* number, and the normal, elevated and low counts add up to it.
C28_StatisticsAgree ==
    [][StoreChanged /\ completed' = "ok" => StatisticsAgree']_vars

MonitoringStarts(a) == pc[a] = "chars" /\ pc'[a] # "chars"

\* C30: monitorECGData starts exactly one sample source: the notification
\* subscription if the characteristic is notifiable, the 100 ms poll interval
\* if it is not, and none if the characteristic is missing; no connect call
\* ever has both, and onData is only invoked by a live subscription or by a
\* read the poll interval started.
C30_OneSampleSource ==
    [][/\ \A a \in Attempts :
              MonitoringStarts(a) =>
                  /\ attr'[a] = "notifiable" =>
                         /\ monitors' = monitors \cup {a}
                         /\ a \notin monitors
                         /\ intervals' = intervals
                         /\ subscription' = [kind |-> "notify", by |-> a]
                  /\ attr'[a] = "pollonly" =>
                         /\ intervals' = intervals \cup {a}
                         /\ a \notin intervals
                         /\ monitors' = monitors
                         /\ subscription' = [kind |-> "poll", by |-> a]
                  /\ attr'[a] \notin {"notifiable", "pollonly"} =>
                         /\ monitors' = monitors
                         /\ intervals' = intervals
       /\ monitors' \cap intervals' = {}
       /\ delivered' # delivered =>
              \E a \in Attempts : (a \in monitors /\ attr[a] = "notifiable")
                                      \/ (a \in reads /\ attr[a] = "pollonly")
      ]_vars

\* a connect call whose characteristic was not notifiable polls, nothing is
\* subscribed, and a sample has been delivered
C30_Witness ==
    \E a \in Attempts :
        /\ attr[a] = "pollonly"
        /\ a \in intervals
        /\ monitors = {}
        /\ delivered >= 1

\* a connect call whose characteristic was notifiable is subscribed, no
\* interval runs, and a sample has been delivered
C30_WitnessNotify ==
    \E a \in Attempts :
        /\ attr[a] = "notifiable"
        /\ a \in monitors
        /\ intervals = {}
        /\ delivered >= 1

\* the latest k elements of a sequence, in order
Latest(arr, k) == SubSeq(arr, Len(arr) - k + 1, Len(arr))

\* C31: the estimator's window never holds more than 50 samples, and while a
\* session's source is live it is the latest min(n, 50) of the n samples the
\* session has received, in arrival order.
C31_WindowIsLatestFifty ==
    /\ Len(heartRateCalculationBuffer) <= 50
    /\ (interval \/ bleSource) =>
           heartRateCalculationBuffer =
               Latest(sessionECGValues, Min2(Len(sessionECGValues), 50))

\* more than 50 samples arrived, the first differing from the later ones, and
\* the window holds the latest 50: the first one was evicted
C31_Witness ==
    /\ interval
    /\ Len(sessionECGValues) > 50
    /\ sessionECGValues[1] # sessionECGValues[Len(sessionECGValues)]
    /\ Len(heartRateCalculationBuffer) = 50
    /\ heartRateCalculationBuffer[1] = sessionECGValues[Len(sessionECGValues) - 49]
    /\ heartRateCalculationBuffer[1] # sessionECGValues[1]

\* a session starts
SessionStarts == starts' = starts + 1

\* the first sample of a session is delivered
FirstSample == SampleDelivered /\ sessionStartTime # NoTime /\ sessionECGValues = << >>

\* C32: the estimator's window is empty when a session starts, and after the
\* session's first sample it holds that sample alone, whatever was delivered
\* in an earlier session or between the sessions; the first estimate is the
\* one for at most one peak, which is the lower limit 50.
C32_WindowEmptyAtStart ==
    [][/\ SessionStarts => heartRateCalculationBuffer' = << >>
       /\ FirstSample =>
              /\ heartRateCalculationBuffer' = lastFed'
              /\ sessionECGValues' = lastFed'
              /\ heartRate' = 50
              /\ sessionHeartRates' = << 50 >>
      ]_vars

\* the second session has received its first sample, after two samples that
\* were delivered before it started, and the window holds that sample alone
C32_Witness ==
    /\ starts = 2
    /\ fed = 3
    /\ Len(sessionECGValues) = 1
    /\ heartRateCalculationBuffer = lastFed
    /\ sessionECGValues = lastFed

\* both session buffers are emptied
BuffersEmptied == sessionHeartRates' = << >> /\ sessionECGValues' = << >>

\* C33: a session's raw samples are the samples delivered from its start to
\* its stop, in arrival order, with one estimate per sample: a start empties
\* both buffers, every delivered sample is appended to the one and its estimate
\* to the other, no sample arrives once the stop is pressed, no other step
\* changes the buffers except to empty both, the record built at the stop
\* holds the raw samples as they are, and no record changes afterwards; so the
\* buffers are equally long in every state.
C33_SessionHoldsItsSamples ==
    [][/\ SessionStarts => BuffersEmptied
       /\ (SampleDelivered /\ sessionStartTime # NoTime) =>
              /\ sessionECGValues' = sessionECGValues \o lastFed'
              /\ sessionHeartRates' = Append(sessionHeartRates, heartRate')
              /\ stopPc = "none"
              /\ isScanning
       /\ ~SampleDelivered =>
              (UNCHANGED << sessionHeartRates, sessionECGValues >> \/ BuffersEmptied)
       /\ Len(sessionHeartRates') = Len(sessionECGValues')
       /\ SummaryStep =>
              /\ Built.ecgData = sessionECGValues
              /\ Len(Built.ecgData) = Len(sessionHeartRates)
       /\ ~SummaryStep => Produced' \subseteq Produced
      ]_vars

\* a record of three samples that are neither ascending nor descending: they
\* are in the order they arrived in
C33_Witness ==
    \E s \in Produced :
        /\ Len(s.ecgData) = 3
        /\ Less(s.ecgData[2], s.ecgData[1])
        /\ Less(s.ecgData[2], s.ecgData[3])
        /\ Less(s.ecgData[1], s.ecgData[3])

\* the timer has invoked a callback
Delivers == emitted' # emitted \/ dataPoint' = dataPoint + 1

\* C34: whatever startECGSimulation and stopECGSimulation calls were made, at
\* most one generator timer is live, and it is the one the module holds; a
\* start sets the running index to 0; every delivery goes to the callback of
\* the latest start, carries the value of the running index and moves the
\* index on by one; and while the simulation is stopped nothing is delivered.
C34_OneTimerInOrder ==
    [][/\ Cardinality(simTimers') <= 1
       /\ simTimers' = IF interval' THEN {simHandle'} ELSE {}
       /\ simStarts' = simStarts + 1 => (dataPoint' = 0 /\ interval')
       /\ Delivers =>
              /\ interval
              /\ emitted' # << >>
              /\ emitted'[1].callback = simStarts
              /\ emitted'[1].index = dataPoint
              /\ dataPoint' = dataPoint + 1
              /\ \E random \in Randoms :
                     emitted'[1].value = generateRealisticECGValue(dataPoint, random)
      ]_vars

\* the simulation was started, stopped and started again, and the second
\* start's callback has been handed the value of index 1 after that of index 0
C34_Witness ==
    /\ simStarts = 2
    /\ interval
    /\ dataPoint = 2
    /\ emitted # << >>
    /\ emitted[1].callback = 2
    /\ emitted[1].index = 1

\* connect call a returns true
ReturnsTrue(a) == ret[a] = "none" /\ ret'[a] = "true"

\* the state changes to CONNECTING only from SCANNING, to CONNECTED only from
\* CONNECTING
StatusOrder ==
    /\ (currentStatus # CONNECTING /\ currentStatus' = CONNECTING) => currentStatus = SCANNING
    /\ (currentStatus # CONNECTED /\ currentStatus' = CONNECTED) => currentStatus = CONNECTING

\* C35 (as claimed): with calls serialized, the status callback of every
\* connect() call that returns true has received exactly SCANNING, CONNECTING,
\* CONNECTED, in that order; CONNECTING is entered only from SCANNING and
\* CONNECTED only from CONNECTING.
C35_StatusSequence ==
    [][/\ \A a \in Attempts :
              ReturnsTrue(a) => observed'[a] = << SCANNING, CONNECTING, CONNECTED >>
       /\ StatusOrder]_vars

\* C35 (amended): with calls serialized, the status callback of a connect()
\* call that returns true has received exactly SCANNING, CONNECTING, CONNECTED,
\* in that order, unless the call found a handle owned: then it returns at
\* once, its callback has received CONNECTED alone and the state stays
\* CONNECTED; CONNECTING is entered only from SCANNING and CONNECTED only from
\* CONNECTING.
C35_StatusSequenceUnlessConnected ==
    [][/\ \A a \in Attempts :
              ReturnsTrue(a) =>
                  IF pc[a] = "idle"
                  THEN /\ connectedDevice # Null
                       /\ observed'[a] = << CONNECTED >>
                       /\ currentStatus = CONNECTED
                       /\ currentStatus' = CONNECTED
                  ELSE /\ a \in scanned
                       /\ observed'[a] = << SCANNING, CONNECTING, CONNECTED >>
       /\ StatusOrder]_vars

\* a call has scanned, connected and returned true, and a later call, made
\* while connected, has returned true having been told CONNECTED alone
C35_Witness ==
    \E a, b \in Attempts :
        /\ a < b
        /\ ret[a] = "true"
        /\ ret[b] = "true"
        /\ observed[a] = << SCANNING, CONNECTING, CONNECTED >>
        /\ observed[b] = << CONNECTED >>
        /\ b \notin scanned

\* C36: with calls serialized, in every state CONNECTED implies that a handle
\* is owned, and DISCONNECTED, SCANNING and ERROR imply that none is; so
\* isConnected() is true exactly when the state is CONNECTED.
C36_HandleMatchesState ==
    /\ currentStatus = CONNECTED => connectedDevice # Null
    /\ currentStatus \in {DISCONNECTED, SCANNING, ERROR} => connectedDevice = Null
    /\ isConnected <=> currentStatus = CONNECTED

\* an attempt took a handle and failed afterwards: the state is ERROR and no
\* handle is owned; an earlier call had been connected and was disconnected
C36_Witness ==
    /\ currentStatus = ERROR
    /\ connectedDevice = Null
    /\ ~isConnected
    /\ \E a \in Attempts : ret[a] = "false" /\ dev[a] \in links
    /\ \E b \in Attempts : ret[b] = "true"

\* C37: in state ERROR no link opened by the manager is open: an attempt that
\* fails after its handshake has succeeded tears the link down before the
\* state becomes ERROR.
C37_NoLinkInError == currentStatus = ERROR => links = {}

\* C38: every connect() call that was made returns in the end, true or false.
C38_ConnectReturns ==
    \A a \in Attempts : (pc[a] # "idle") ~> (ret[a] # "none")

\* sessions whose saveECGSession call has returned
Saved == { storeCalls[c].id : c \in { k \in DOMAIN storeCalls :
              storeCalls[k].op = "save" /\ storeCalls[k].at = "returned" } }
\* sessions deleteECGSession was called for
DeleteCalled == { storeCalls[c].id : c \in { k \in DOMAIN storeCalls :
                     storeCalls[k].op = "delete" } }
\* sessions in the list getAllECGSessions gives
Listed == LET sessions == getAllECGSessions(sessionsItem, TRUE)
          IN  { sessions[i].id : i \in DOMAIN sessions }

\* C39: a session whose saveECGSession call has returned is in the list
\* getAllECGSessions gives, unless deleteECGSession was called for it, in
\* every interleaving of overlapping saveECGSession and deleteECGSession calls.
C39_SavedStaysListed == (Saved \ DeleteCalled) \subseteq Listed

\* the step that unmounts the dashboard, and the states the claim names
Unmounts == ~unmounted /\ unmounted'
Monitoring == currentStatus \in {SCANNING, CONNECTING, CONNECTED} \/ interval

\* C40: the unmount of the dashboard in a monitoring state (Scanning,
\* Connecting, Connected, or the generator running) leaves no scan, scan
\* timer, subscription, poll timer or generator timer, and no link other
\* than the one whose cancelConnection it has started.
C40_UnmountStopsAll ==
    [][(Unmounts /\ Monitoring) =>
          /\ scanListener' = NoAttempt
          /\ timers' = {}
          /\ monitors' = {}
          /\ intervals' = {}
          /\ ~interval'
          /\ links' = {} \/ \E k \in Disconnects : dpc'[k] = "cancel"]_vars

====
